---- MODULE Spec2Model ----
(***************************************************************************)
(* Model of the walk-forward backtesting core of commoditymovement:        *)
(* the two WalkForwardSplitter variants, BacktestEngine, the               *)
(* CapitalConstitution risk layer, StrategyOptimizer and                   *)
(* WalkForwardOptimizer.                                                   *)
(*                                                                         *)
(* Numbers: the Python code computes in binary floating point.  The model  *)
(* computes the same expressions in exact rational arithmetic (a rational  *)
(* is a record [n, d] in lowest terms with d > 0), plus the two special    *)
(* values the code produces, NaN and -inf, where they arise.  Rounding     *)
(* error of floats is therefore outside the model.                         *)
(*                                                                         *)
(* Each component has one state variable holding its object's fields; a    *)
(* specification runs one component and leaves the others idle.            *)
(***************************************************************************)
EXTENDS Integers, Sequences, FiniteSets, TLC

VARIABLES risk, isplit, dsplit, eng, opt, wfo, obj, agg, strat, cb, reg

vars == <<risk, isplit, dsplit, eng, opt, wfo, obj, agg, strat, cb, reg>>

(***************************************************************************)
(* Exact rational arithmetic                                               *)
(***************************************************************************)
Abs(x) == IF x < 0 THEN -x ELSE x

Sign(x) == IF x > 0 THEN 1 ELSE IF x < 0 THEN -1 ELSE 0

RECURSIVE GCD(_, _)
GCD(a, b) == IF b = 0 THEN a ELSE GCD(b, a % b)

Rat(num, den) ==
    LET g == GCD(Abs(num), Abs(den))
        s == IF den < 0 THEN -1 ELSE 1
    IN  [n |-> (s * num) \div g, d |-> (s * den) \div g]

I2R(i) == [n |-> i, d |-> 1]

RZero == I2R(0)

\* The float nan, kept as 0/0: arithmetic on it gives nan and every
\* comparison with it is false.
RNaN == [n |-> 0, d |-> 0]

IsNaN(a) == a.d = 0

ROne == I2R(1)

\* Sum over the least common denominator (keeps the intermediate small).
RAdd(a, b) ==
    IF IsNaN(a) \/ IsNaN(b) THEN RNaN
    ELSE
    LET g == GCD(a.d, b.d)
    IN  Rat(a.n * (b.d \div g) + b.n * (a.d \div g), (a.d \div g) * b.d)

RNeg(a) == [n |-> -a.n, d |-> a.d]

RSub(a, b) == RAdd(a, RNeg(b))

\* Product, cancelling across before multiplying.
RMul(a, b) ==
    IF IsNaN(a) \/ IsNaN(b) THEN RNaN
    ELSE
    LET g1 == GCD(Abs(a.n), b.d)
        g2 == GCD(Abs(b.n), a.d)
    IN  Rat((a.n \div g1) * (b.n \div g2), (a.d \div g2) * (b.d \div g1))

\* Division by a non-zero rational (callers guard the zero case).
RDiv(a, b) == IF IsNaN(b) THEN RNaN ELSE RMul(a, Rat(b.d, b.n))

\* an/ad < bn/bd for ad, bd > 0, by comparing the integer parts and then
\* the reciprocals of the fractional parts (no product is formed, so large
\* numerators do not overflow).
RECURSIVE FracLt(_, _, _, _)
FracLt(an, ad, bn, bd) ==
    LET qa == an \div ad
        qb == bn \div bd
        ra == an % ad
        rb == bn % bd
    IN  IF qa # qb THEN qa < qb
        ELSE IF rb = 0 THEN FALSE
        ELSE IF ra = 0 THEN TRUE
        ELSE FracLt(bd, rb, ad, ra)

RLt(a, b) == ~IsNaN(a) /\ ~IsNaN(b) /\ FracLt(a.n, a.d, b.n, b.d)

RLe(a, b) == ~IsNaN(a) /\ ~IsNaN(b) /\ ~RLt(b, a)

RAbs(a) == [n |-> Abs(a.n), d |-> a.d]

RSign(a) == Sign(a.n)

RMin(a, b) == IF RLt(b, a) THEN b ELSE a

RMax(a, b) == IF RLt(a, b) THEN b ELSE a

Max(a, b) == IF a < b THEN b ELSE a

Min(a, b) == IF b < a THEN b ELSE a

SetMax(S) == CHOOSE x \in S : \A y \in S : y <= x

SetMin(S) == CHOOSE x \in S : \A y \in S : x <= y

(***************************************************************************)
(* core/risk.py: CapitalConstitution                                       *)
(***************************************************************************)
\* Inputs offered to the risk functions.
RiskEquities == {I2R(-100), I2R(0), I2R(50), I2R(80), I2R(95), I2R(100)}

RiskPeaks == {I2R(-100), I2R(0), I2R(100)}

RiskDrawdowns == {Rat(1, 5), Rat(1, 2), I2R(1)}

RiskLimits == {Rat(1, 5), Rat(1, 2), I2R(1)}

RiskSizes == {I2R(-80), I2R(-50), I2R(-10), I2R(0), I2R(10), I2R(50), I2R(80)}

\* check_drawdown with the boundary excluded (dd >= -max_drawdown passes).
check_drawdown_exclusive(current_equity, peak_equity, max_drawdown) ==
    IF RLe(peak_equity, RZero) THEN TRUE
    ELSE LET dd == RSub(RDiv(current_equity, peak_equity), ROne)
         IN  RLe(RNeg(max_drawdown), dd)

\* CapitalConstitution.check_drawdown: True = within limits, False = frozen.
check_drawdown(current_equity, peak_equity, max_drawdown) ==
    IF RLe(peak_equity, RZero) THEN TRUE
    ELSE LET dd == RSub(RDiv(current_equity, peak_equity), ROne)
         IN  RLt(RNeg(max_drawdown), dd)

\* validate_position_size that forgets to restore the sign.
validate_position_size_unsigned(size, current_equity, position_limit_pct) ==
    LET max_allowed_val == RMul(current_equity, position_limit_pct)
    IN  RMin(RAbs(size), max_allowed_val)

\* CapitalConstitution.validate_position_size:
\* min(abs(size), equity * limit) * np.sign(size).
validate_position_size(size, current_equity, position_limit_pct) ==
    LET max_allowed_val == RMul(current_equity, position_limit_pct)
    IN  RMul(RMin(RAbs(size), max_allowed_val), I2R(RSign(size)))

RiskIdle == [op |-> "none"]

RiskInit == risk = RiskIdle

CheckDrawdown ==
    /\ \E e \in RiskEquities, p \in RiskPeaks, m \in RiskDrawdowns :
          risk' = [op |-> "check_drawdown", current_equity |-> e,
                   peak_equity |-> p, max_drawdown |-> m,
                   result |-> check_drawdown(e, p, m)]
    /\ UNCHANGED <<isplit, dsplit, eng, opt, wfo, obj, agg, strat, cb, reg>>

ValidatePositionSize ==
    /\ \E e \in RiskEquities, s \in RiskSizes, l \in RiskLimits :
          risk' = [op |-> "validate_position_size", current_equity |-> e,
                   size |-> s, position_limit_pct |-> l,
                   result |-> validate_position_size(s, e, l)]
    /\ UNCHANGED <<isplit, dsplit, eng, opt, wfo, obj, agg, strat, cb, reg>>

\* RiskProfile(max_drawdown=..., vol_target=..., max_leverage=...,
\* position_limit_pct=...): a pydantic model whose four fields are plain
\* floats without constraints or validators, so every float is accepted.
RiskProfile(max_drawdown, vol_target, max_leverage, position_limit_pct) ==
    [raised |-> FALSE,
     max_drawdown |-> max_drawdown, vol_target |-> vol_target,
     max_leverage |-> max_leverage, position_limit_pct |-> position_limit_pct]

\* Field values offered to the constructor, inside and outside the ranges
\* of the specification.
ProfileDrawdowns == {Rat(-1, 5), RZero, Rat(1, 5), ROne, Rat(3, 2)}

ProfileVolTargets == {Rat(-1, 10), RZero, Rat(3, 20)}

ProfileLeverages == {Rat(1, 2), ROne, I2R(2)}

ProfileLimits == {RZero, Rat(1, 5), ROne, I2R(2)}

\* profile = RiskProfile(...)
NewRiskProfile ==
    /\ risk.op = "none"
    /\ \E md \in ProfileDrawdowns, vt \in ProfileVolTargets,
          ml \in ProfileLeverages, pl \in ProfileLimits :
          risk' = [op |-> IF RiskProfile(md, vt, ml, pl).raised
                          THEN "raised" ELSE "RiskProfile",
                   profile |-> RiskProfile(md, vt, ml, pl)]
    /\ UNCHANGED <<isplit, dsplit, eng, opt, wfo, obj, agg, strat, cb, reg>>

\* CapitalConstitution(profile): self.profile = profile
NewCapitalConstitution ==
    /\ risk.op = "RiskProfile"
    /\ risk' = [risk EXCEPT !.op = "CapitalConstitution"]
    /\ UNCHANGED <<isplit, dsplit, eng, opt, wfo, obj, agg, strat, cb, reg>>

\* get_vol_scalar that divides the wrong way round.
get_vol_scalar_inverted(current_volatility, vol_target) ==
    IF RLe(current_volatility, RZero) THEN ROne
    ELSE IF RLt(vol_target, current_volatility)
         THEN RDiv(current_volatility, vol_target)
         ELSE ROne

\* CapitalConstitution.get_vol_scalar
get_vol_scalar(current_volatility, vol_target) ==
    IF RLe(current_volatility, RZero) THEN ROne
    ELSE IF RLt(vol_target, current_volatility)
         THEN RDiv(vol_target, current_volatility)
         ELSE ROne

\* Volatilities and volatility targets offered, in steps of 5%, with nan.
MaxVolSteps == 10

VolValues == {Rat(k, 20) : k \in (-2)..MaxVolSteps} \cup {RNaN}

GetVolScalar ==
    /\ \E cv \in VolValues, vt \in VolValues :
          risk' = [op |-> "get_vol_scalar", current_volatility |-> cv,
                   vol_target |-> vt, result |-> get_vol_scalar(cv, vt)]
    /\ UNCHANGED <<isplit, dsplit, eng, opt, wfo, obj, agg, strat, cb, reg>>

(***************************************************************************)
(* models/validation.py: index-based WalkForwardSplitter                   *)
(***************************************************************************)
\* Bounds on the inputs of the index-based splitter.
MaxSamples == 6

MaxSplits == 3

MaxTestSize == 2

MaxTrainWindow == 2

MaxEmbargo == 3

\* None for an optional constructor argument.
None == -1

\* indices[start:stop] of np.arange(n) for start >= 0: a negative stop
\* counts from the end, and both ends are clipped to the array.
SliceSet(n, start, stop) ==
    LET hi == IF stop < 0 THEN Max(stop + n, 0) ELSE Min(stop, n)
    IN  {i \in 0..(n - 1) : start <= i /\ i < hi}

\* "fold_size" of split: test_size, or n_samples // (n_splits + 1).
FoldSize(n_samples, n_splits, test_size) ==
    IF test_size = None THEN n_samples \div (n_splits + 1) ELSE test_size

ISplitIdle == [pc |-> "idle"]

\* WalkForwardSplitter(...).split(X) up to the loop: the ValueError check.
ISplitStart ==
    /\ isplit.pc = "idle"
    /\ \E n_samples \in 0..MaxSamples, n_splits \in 1..MaxSplits,
          test_size \in {None} \cup (1..MaxTestSize),
          train_window_size \in {None} \cup (0..MaxTrainWindow),
          embargo \in 0..MaxEmbargo :
          LET fold_size == FoldSize(n_samples, n_splits, test_size)
              current_test_start == n_samples - fold_size * n_splits
          IN  isplit' = [pc |-> IF current_test_start < 0 THEN "raised" ELSE "loop",
                         n_samples |-> n_samples, n_splits |-> n_splits,
                         test_size |-> test_size,
                         train_window_size |-> train_window_size,
                         embargo |-> embargo, fold_size |-> fold_size,
                         current_test_start |-> current_test_start,
                         k |-> 0, folds |-> <<>>]
    /\ UNCHANGED <<risk, dsplit, eng, opt, wfo, obj, agg, strat, cb, reg>>

\* One iteration of "for _ in range(self.n_splits)": yields one fold.
ISplitYield ==
    /\ isplit.pc = "loop"
    /\ isplit.k < isplit.n_splits
    /\ LET test_end == isplit.current_test_start + isplit.fold_size
           train_end == isplit.current_test_start - isplit.embargo
           \* "if self.train_window_size:" is false for None and for 0
           train_start == IF isplit.train_window_size \notin {None, 0}
                          THEN Max(0, train_end - isplit.train_window_size)
                          ELSE 0
       IN  IF test_end > isplit.n_samples
           THEN isplit' = [isplit EXCEPT !.pc = "done"]
           ELSE isplit' = [isplit EXCEPT
                    !.folds = Append(@,
                        [train_idx |-> SliceSet(isplit.n_samples, train_start, train_end),
                         test_idx |-> SliceSet(isplit.n_samples,
                                               isplit.current_test_start, test_end)]),
                    !.current_test_start = @ + isplit.fold_size,
                    !.k = @ + 1]
    /\ UNCHANGED <<risk, dsplit, eng, opt, wfo, obj, agg, strat, cb, reg>>

\* The loop runs out: the generator is exhausted.
ISplitDone ==
    /\ isplit.pc = "loop"
    /\ isplit.k = isplit.n_splits
    /\ isplit' = [isplit EXCEPT !.pc = "done"]
    /\ UNCHANGED <<risk, dsplit, eng, opt, wfo, obj, agg, strat, cb, reg>>

(***************************************************************************)
(* backtest/walk_forward.py: date-based WalkForwardSplitter                *)
(* Timestamps are whole hours since an origin.                             *)
(***************************************************************************)
\* Days of data offered to the date-based splitter.
MaxDays == 3

\* Largest train window, test window and step, in days.
MaxWindowDays == 2

\* datetime.timedelta(days=1) in hours.
DayHours == 24

\* The gap "train_end + datetime.timedelta(hours=1)" between the windows.
EmbargoHours == 1

\* Timestamps a data index may hold: midnight, one hour past, and noon.
TimeGrid == {h \in 0..(MaxDays * DayHours) : h % DayHours \in {0, 1, 12}}

\* The window bounds with the test window starting at train_end itself.
WindowsNoEmbargo(current_train_start, train_window, test_window) ==
    LET train_end == current_train_start + train_window * DayHours
        test_end == train_end + test_window * DayHours
    IN  [train_start |-> current_train_start, train_end |-> train_end,
         test_start |-> train_end, test_end |-> test_end]

\* The window bounds of the iteration that starts at current_train_start.
Windows(current_train_start, train_window, test_window) ==
    LET train_end == current_train_start + train_window * DayHours
        test_start == train_end + EmbargoHours
        test_end == test_start + test_window * DayHours
    IN  [train_start |-> current_train_start, train_end |-> train_end,
         test_start |-> test_start, test_end |-> test_end]

\* train_mask with the test rows starting at train_end itself (no gap).
TrainMask(dates, w) == {t \in dates : w.train_start <= t /\ t <= w.train_end}

TestMaskNoGap(dates, w) == {t \in dates : w.train_end <= t /\ t <= w.test_end}

\* test_mask = (dates >= test_start) & (dates <= test_end)
TestMask(dates, w) == {t \in dates : w.test_start <= t /\ t <= w.test_end}

DSplitIdle == [pc |-> "idle"]

\* split(data) up to the loop: sort the index, take its first and last
\* date.  On an empty index dates[0] raises IndexError.
SplitEntry(dates, train_window, test_window, step) ==
    IF dates = {}
    THEN [pc |-> "raised", dates |-> dates,
          train_window |-> train_window, test_window |-> test_window,
          step |-> step, folds |-> <<>>]
    ELSE [pc |-> "loop", dates |-> dates,
          train_window |-> train_window, test_window |-> test_window,
          step |-> step,
          start_date |-> SetMin(dates), end_date |-> SetMax(dates),
          current_train_start |-> SetMin(dates), folds |-> <<>>]

\* list(WalkForwardSplitter(train_window, test_window, step).split(data))
\* begins, on any index over the time grid.
DSplitStart ==
    /\ dsplit.pc = "idle"
    /\ \E dates \in SUBSET TimeGrid,
          train_window \in 1..MaxWindowDays,
          test_window \in 1..MaxWindowDays,
          step \in 1..MaxWindowDays :
          dsplit' = SplitEntry(dates, train_window, test_window, step)
    /\ UNCHANGED <<risk, isplit, eng, opt, wfo, obj, agg, strat, cb, reg>>

\* The same on a daily index of up to MaxDailyRows rows.
MaxDailyRows == 9

DailyIndex(n) == {(k - 1) * DayHours : k \in 1..n}

DSplitStartDaily ==
    /\ dsplit.pc = "idle"
    /\ \E n \in 0..MaxDailyRows,
          train_window \in 1..MaxWindowDays,
          test_window \in 1..MaxWindowDays,
          step \in 1..MaxWindowDays :
          dsplit' = SplitEntry(DailyIndex(n), train_window, test_window, step)
    /\ UNCHANGED <<risk, isplit, eng, opt, wfo, obj, agg, strat, cb, reg>>

\* One iteration of "while True": break, or yield a fold when both slices
\* are non-empty, and advance the train start by step days.
SplitIterate(d) ==
    LET w == Windows(d.current_train_start, d.train_window, d.test_window)
        train == TrainMask(d.dates, w)
        test == TestMask(d.dates, w)
    IN  IF w.test_end > d.end_date
        THEN [d EXCEPT !.pc = "done"]
        ELSE [d EXCEPT
                 !.folds = IF train # {} /\ test # {}
                           THEN Append(@, [train |-> train, test |-> test,
                                           window |-> w])
                           ELSE @,
                 !.current_train_start = @ + d.step * DayHours]

DSplitIter ==
    /\ dsplit.pc = "loop"
    /\ dsplit' = SplitIterate(dsplit)
    /\ UNCHANGED <<risk, isplit, eng, opt, wfo, obj, agg, strat, cb, reg>>

\* The constructor stores train_window, test_window and step as given, so
\* a step of 0 is accepted: a daily index with any step from 0 on.
DSplitStartAnyStep ==
    /\ dsplit.pc = "idle"
    /\ \E n \in 0..MaxDailyRows,
          train_window \in 1..MaxWindowDays,
          test_window \in 1..MaxWindowDays,
          step \in 0..MaxWindowDays :
          dsplit' = SplitEntry(DailyIndex(n), train_window, test_window, step)
    /\ UNCHANGED <<risk, isplit, eng, opt, wfo, obj, agg, strat, cb, reg>>

\* The list built from the folds, of which the model keeps no more than
\* the index has rows (a split that advances yields fewer): the oldest
\* fold is let go and the parity of the number let go is noted.
KeepFolds(d) ==
    IF Len(d.folds) <= Cardinality(d.dates) THEN d
    ELSE [k \in DOMAIN d \cup {"dropped"} |->
            IF k = "dropped"
            THEN (IF "dropped" \in DOMAIN d THEN (d.dropped + 1) % 2 ELSE 1)
            ELSE IF k = "folds" THEN Tail(d.folds) ELSE d[k]]

\* One iteration, driven by list(splitter.split(data)).
DSplitIterKept ==
    /\ dsplit.pc = "loop"
    /\ dsplit' = KeepFolds(SplitIterate(dsplit))
    /\ UNCHANGED <<risk, isplit, eng, opt, wfo, obj, agg, strat, cb, reg>>

(***************************************************************************)
(* backtest/engine.py: BacktestEngine                                      *)
(* price_data is a sequence of rows [date, prices], ascending in date,     *)
(* prices a function from the column assets to the close price.            *)
(* allocations is a sequence of rows [date, asset, weight].                *)
(***************************************************************************)
\* bps / 10000.0
BpsToRate(bps) == Rat(bps, 10000)

\* "if abs(qty_to_trade) > 0.0001"
DustThreshold == Rat(1, 10000)

\* BacktestEngine.__init__
NewEngine(initial_capital, commission_bps, slippage_bps) ==
    [initial_capital |-> initial_capital,
     commission_bps |-> commission_bps,
     slippage_bps |-> slippage_bps,
     commission_rate |-> BpsToRate(commission_bps),
     slippage_rate |-> BpsToRate(slippage_bps),
     cash |-> initial_capital,
     positions |-> <<>>,
     history |-> <<>>,
     trades |-> <<>>]

\* sum of qty * price over the held assets that have a price column
RECURSIVE PositionsValue(_, _, _)
PositionsValue(assets, positions, current_prices) ==
    IF assets = {} THEN RZero
    ELSE LET a == CHOOSE x \in assets : TRUE
             v == IF a \in DOMAIN current_prices
                  THEN RMul(positions[a], current_prices[a])
                  ELSE RZero
         IN  RAdd(v, PositionsValue(assets \ {a}, positions, current_prices))

\* Mark-to-market that forgets the positions.
MarkToMarketCashOnly(e, current_prices) == e.cash

\* Mark-to-market that adds each held asset's price, not qty * price.
MarkToMarketUnitQty(e, current_prices) ==
    RAdd(e.cash,
         PositionsValue(DOMAIN e.positions,
                        [a \in DOMAIN e.positions |-> ROne], current_prices))

\* port_value = cash + sum(qty * current_prices[asset])
MarkToMarket(e, current_prices) ==
    RAdd(e.cash, PositionsValue(DOMAIN e.positions, e.positions, current_prices))

\* self.positions.get(asset, 0)
CurrentQty(e, asset) ==
    IF asset \in DOMAIN e.positions THEN e.positions[asset] ELSE RZero

\* exec_price with the slippage in the trader's favour.
ExecPriceFavourable(e, price, diff_value) ==
    IF RLt(RZero, diff_value)
    THEN RMul(price, RSub(ROne, e.slippage_rate))
    ELSE RMul(price, RAdd(ROne, e.slippage_rate))

\* exec_price: the price moved against the trade by the slippage rate
ExecPrice(e, price, diff_value) ==
    IF RLt(RZero, diff_value)
    THEN RMul(price, RAdd(ROne, e.slippage_rate))
    ELSE RMul(price, RSub(ROne, e.slippage_rate))

\* The updates of one allocation row when a trade at or below the dust
\* threshold is dropped altogether instead of only left out of the log.
ApplyTradeDropDust(e, date, asset, diff_value, exec_price, qty_to_trade, trade_cost) ==
    IF ~RLt(DustThreshold, RAbs(qty_to_trade)) THEN e
    ELSE [e EXCEPT
        !.cash = RSub(@, RAdd(diff_value, trade_cost)),
        !.positions = [a \in (DOMAIN e.positions) \cup {asset} |->
                          IF a = asset THEN RAdd(CurrentQty(e, asset), qty_to_trade)
                          ELSE e.positions[a]],
        !.trades = Append(@, [date |-> date, asset |-> asset,
                              quantity |-> qty_to_trade,
                              price |-> exec_price,
                              cost |-> trade_cost,
                              direction |-> IF RLt(RZero, qty_to_trade)
                                            THEN 1 ELSE -1])]

\* The updates of one allocation row: cash, position, trade log (a trade
\* is logged only above the dust threshold).
ApplyTrade(e, date, asset, diff_value, exec_price, qty_to_trade, trade_cost) ==
    [e EXCEPT
        !.cash = RSub(@, RAdd(diff_value, trade_cost)),
        !.positions = [a \in (DOMAIN e.positions) \cup {asset} |->
                          IF a = asset THEN RAdd(CurrentQty(e, asset), qty_to_trade)
                          ELSE e.positions[a]],
        !.trades = IF RLt(DustThreshold, RAbs(qty_to_trade))
                   THEN Append(@, [date |-> date, asset |-> asset,
                                   quantity |-> qty_to_trade,
                                   price |-> exec_price,
                                   cost |-> trade_cost,
                                   direction |-> IF RLt(RZero, qty_to_trade)
                                                 THEN 1 ELSE -1])
                   ELSE @]

\* qty_to_trade = diff_value / exec_price; trade_cost = |diff_value| * rate
FillTrade(e, date, asset, diff_value, exec_price) ==
    ApplyTrade(e, date, asset, diff_value, exec_price,
               RDiv(diff_value, exec_price),
               RMul(RAbs(diff_value), e.commission_rate))

\* A row whose asset is priced, diff_value = target_value - current_value.
TradeRow(e, date, asset, price, diff_value) ==
    FillTrade(e, date, asset, diff_value, ExecPrice(e, price, diff_value))

\* One allocation row sized on the cash at hand instead of total_equity.
RebalanceRowOnCash(e, date, row, current_prices, total_equity) ==
    IF row.asset \notin DOMAIN current_prices THEN e
    ELSE TradeRow(e, date, row.asset, current_prices[row.asset],
                  RSub(RMul(e.cash, row.weight),
                       RMul(CurrentQty(e, row.asset), current_prices[row.asset])))

\* One iteration of the loop of _rebalance: one allocation row; a row
\* whose asset has no price is skipped.
RebalanceRow(e, date, row, current_prices, total_equity) ==
    IF row.asset \notin DOMAIN current_prices THEN e
    ELSE TradeRow(e, date, row.asset, current_prices[row.asset],
                  RSub(RMul(total_equity, row.weight),
                       RMul(CurrentQty(e, row.asset), current_prices[row.asset])))

\* _rebalance: the rows of one date, in order, all sized on total_equity.
RECURSIVE Rebalance(_, _, _, _, _)
Rebalance(e, date, daily_allocs, current_prices, total_equity) ==
    IF daily_allocs = <<>> THEN e
    ELSE Rebalance(RebalanceRow(e, date, Head(daily_allocs), current_prices,
                                total_equity),
                   date, Tail(daily_allocs), current_prices, total_equity)

\* The allocation rows of the following date, taken for this one.
DailyAllocsNextDate(allocations, date) ==
    SelectSeq(allocations, LAMBDA r : r.date = date + 1)

\* allocations[allocations['date'] == date]
DailyAllocs(allocations, date) ==
    SelectSeq(allocations, LAMBDA r : r.date = date)

\* self.history.append(PortfolioState(...)) with the pre-trade state
RecordState(e, date, port_value) ==
    [e EXCEPT !.history = Append(@, [date |-> date, cash |-> e.cash,
                                     positions |-> e.positions,
                                     equity |-> port_value])]

\* "if not daily_allocs.empty: self._rebalance(...)"
RebalanceIfAny(e, date, daily_allocs, current_prices, port_value) ==
    IF daily_allocs # <<>>
    THEN Rebalance(e, date, daily_allocs, current_prices, port_value)
    ELSE e

\* The steps of one date once port_value is known.
RecordAndRebalance(e, prow, allocations, port_value) ==
    RebalanceIfAny(RecordState(e, prow.date, port_value), prow.date,
                   DailyAllocs(allocations, prow.date), prow.prices, port_value)

\* The body of "for date in dates": mark to market, record the pre-trade
\* state, rebalance when the date has allocations.
StepDate(e, prow, allocations) ==
    RecordAndRebalance(e, prow, allocations, MarkToMarket(e, prow.prices))

\* run_backtest: every date of price_data in ascending order.
RECURSIVE RunBacktest(_, _, _)
RunBacktest(e, price_data, allocations) ==
    IF price_data = <<>> THEN e
    ELSE RunBacktest(StepDate(e, Head(price_data), allocations),
                     Tail(price_data), allocations)

\* Inputs offered to a stand-alone engine run.
MaxDates == 3

EngCapitals == {I2R(100)}

EngFrictionBps == {<<0, 0>>, <<5000, 0>>, <<0, 5000>>}

EngPriceRows == {[GOLD |-> I2R(1), OIL |-> I2R(2)],
                 [GOLD |-> I2R(2), OIL |-> I2R(1)]}

\* What a date's allocation rows may be (asset, weight), COPPER unpriced.
EngDailyAllocs ==
    {<<>>,
     <<[asset |-> "GOLD", weight |-> RZero]>>,
     <<[asset |-> "GOLD", weight |-> Rat(1, 2)]>>,
     <<[asset |-> "GOLD", weight |-> Rat(-1, 2)], [asset |-> "OIL", weight |-> Rat(1, 2)]>>,
     <<[asset |-> "COPPER", weight |-> Rat(1, 2)], [asset |-> "OIL", weight |-> Rat(1, 4)]>>}

\* The allocation frame made of the per-date choices, dates 1..n.
RECURSIVE AllocFrame(_, _)
AllocFrame(choice, n) ==
    IF n = 0 THEN <<>>
    ELSE AllocFrame(choice, n - 1) \o
         [k \in 1..Len(choice[n]) |->
             [date |-> n, asset |-> choice[n][k].asset,
              weight |-> choice[n][k].weight]]

EngIdle == [pc |-> "idle"]

\* engine = BacktestEngine(...); engine.run_backtest(price_data, allocations)
\* is called: the inputs are fixed and the loop begins.
EngStart ==
    /\ eng.pc = "idle"
    /\ \E n \in 1..MaxDates, cap \in EngCapitals, f \in EngFrictionBps :
       \E rows \in [1..n -> EngPriceRows], choice \in [1..n -> EngDailyAllocs] :
          eng' = [pc |-> "run",
                  engine |-> NewEngine(cap, f[1], f[2]),
                  price_data |-> [k \in 1..n |-> [date |-> k, prices |-> rows[k]]],
                  allocations |-> AllocFrame(choice, n),
                  i |-> 0]
    /\ UNCHANGED <<risk, isplit, dsplit, opt, wfo, obj, agg, strat, cb, reg>>

\* One date of the loop of run_backtest.
EngStep ==
    /\ eng.pc = "run"
    /\ eng.i < Len(eng.price_data)
    /\ eng' = [eng EXCEPT
                  !.engine = StepDate(@, eng.price_data[eng.i + 1], eng.allocations),
                  !.i = @ + 1]
    /\ UNCHANGED <<risk, isplit, dsplit, opt, wfo, obj, agg, strat, cb, reg>>

\* The loop is over: run_backtest returns the history frame.
EngReturn ==
    /\ eng.pc = "run"
    /\ eng.i = Len(eng.price_data)
    /\ eng' = [eng EXCEPT !.pc = "done"]
    /\ UNCHANGED <<risk, isplit, dsplit, opt, wfo, obj, agg, strat, cb, reg>>

\* engine.run_backtest(price_data, allocations) is called a second time on
\* the same engine object, with the same frames: nothing of the engine is
\* touched before the loop.  The engine as the first call left it is kept
\* aside in first.
EngAgain ==
    /\ eng.pc = "done"
    /\ "first" \notin DOMAIN eng
    /\ eng' = [pc |-> "run",
               engine |-> eng.engine,
               price_data |-> eng.price_data,
               allocations |-> eng.allocations,
               i |-> 0,
               first |-> eng.engine]
    /\ UNCHANGED <<risk, isplit, dsplit, opt, wfo, obj, agg, strat, cb, reg>>

\* Inputs of a run over price data with gaps: a price frame holds nan
\* where an asset has no price on a date.
EngGapRows == {[GOLD |-> I2R(1), OIL |-> I2R(2)],
               [GOLD |-> RNaN, OIL |-> I2R(2)]}

EngGapAllocs ==
    {<<>>,
     <<[asset |-> "GOLD", weight |-> Rat(1, 2)]>>,
     <<[asset |-> "GOLD", weight |-> Rat(1, 2)], [asset |-> "OIL", weight |-> Rat(1, 4)]>>,
     <<[asset |-> "COPPER", weight |-> Rat(1, 2)], [asset |-> "OIL", weight |-> Rat(1, 4)]>>}

\* engine.run_backtest(price_data, allocations) is called on price data
\* with gaps.
EngStartGaps ==
    /\ eng.pc = "idle"
    /\ \E n \in 1..MaxDates, cap \in EngCapitals :
       \E rows \in [1..n -> EngGapRows], choice \in [1..n -> EngGapAllocs] :
          eng' = [pc |-> "run",
                  engine |-> NewEngine(cap, 0, 0),
                  price_data |-> [k \in 1..n |-> [date |-> k, prices |-> rows[k]]],
                  allocations |-> AllocFrame(choice, n),
                  i |-> 0]
    /\ UNCHANGED <<risk, isplit, dsplit, opt, wfo, obj, agg, strat, cb, reg>>

\* Inputs of a run with very small trades: capital 1 and GOLD weights
\* around the dust threshold, allocated on at most two dates.
DustWeights == {Rat(1, 20000), Rat(1, 10000), Rat(1, 5000), Rat(1, 2)}

DustAllocFrames(n) ==
    {<<>>}
    \cup {<<[date |-> d, asset |-> "GOLD", weight |-> w]>> :
             d \in 1..n, w \in DustWeights}
    \cup {<<[date |-> d[1], asset |-> "GOLD", weight |-> w[1]],
            [date |-> d[2], asset |-> "GOLD", weight |-> w[2]]>> :
             d \in {x \in (1..n) \X (1..n) : x[1] < x[2]},
             w \in DustWeights \X DustWeights}

\* engine.run_backtest(price_data, allocations) is called with such inputs.
EngStartDust ==
    /\ eng.pc = "idle"
    /\ \E n \in 1..MaxDates, f \in {<<0, 0>>, <<5000, 0>>} :
       \E rows \in [1..n -> EngPriceRows], allocations \in DustAllocFrames(n) :
          eng' = [pc |-> "run",
                  engine |-> NewEngine(ROne, f[1], f[2]),
                  price_data |-> [k \in 1..n |-> [date |-> k, prices |-> rows[k]]],
                  allocations |-> allocations,
                  i |-> 0]
    /\ UNCHANGED <<risk, isplit, dsplit, opt, wfo, obj, agg, strat, cb, reg>>

(***************************************************************************)
(* optimization/objective_functions.py                                     *)
(* A score is NaN, -inf, or the real number sgn * sqrt(sq) with sq a       *)
(* rational: the Sharpe ratio sqrt(252) * mean / std is kept exactly as    *)
(* its sign and its square.                                                *)
(***************************************************************************)
\* Trading days per year used to annualise.
AnnualPeriods == 252

NaN == [kind |-> "nan"]

NegInf == [kind |-> "neginf"]

Num(sgn, sq) == [kind |-> "num", sgn |-> sgn, sq |-> sq]

ZeroScore == Num(0, RZero)

\* a < b on floats that are not NaN
ScoreLt(a, b) ==
    IF b.kind = "neginf" THEN FALSE
    ELSE IF a.kind = "neginf" THEN TRUE
    ELSE IF a.sgn # b.sgn THEN a.sgn < b.sgn
    ELSE IF a.sgn = 1 THEN RLt(a.sq, b.sq)
    ELSE IF a.sgn = -1 THEN RLt(b.sq, a.sq)
    ELSE FALSE

RECURSIVE RSum(_)
RSum(xs) == IF xs = <<>> THEN RZero ELSE RAdd(Head(xs), RSum(Tail(xs)))

\* Series.mean() of a non-empty series
RMean(xs) == RDiv(RSum(xs), I2R(Len(xs)))

\* Series.std() ** 2 (sample variance, ddof = 1) of a series of length >= 2
RVar(xs) ==
    LET mu == RMean(xs)
    IN  RDiv(RSum([k \in 1..Len(xs) |->
                      RMul(RSub(xs[k], mu), RSub(xs[k], mu))]),
             I2R(Len(xs) - 1))

\* np.sqrt(252) * mean / std once std is known not to be 0
SharpeOf(mu, var) ==
    Num(RSign(mu), RDiv(RMul(I2R(AnnualPeriods), RMul(mu, mu)), var))

\* "if excess_returns.std() == 0: return 0.0", else the ratio
SharpeFrom(mu, var) == IF var = RZero THEN ZeroScore ELSE SharpeOf(mu, var)

\* calculate_sharpe_ratio with risk_free_rate = 0.  Series.std() of a
\* single sample is NaN, which is not == 0, so the ratio is NaN.
calculate_sharpe_ratio(returns) ==
    IF returns = <<>> THEN ZeroScore
    ELSE IF Len(returns) = 1 THEN NaN
    ELSE SharpeFrom(RMean(returns), RVar(returns))

\* perf['equity'].pct_change().dropna(): e[k] / e[k-1] - 1 for k >= 2.
\* (Equity stays positive for the inputs offered, so no division by zero.)
PctChange(history) ==
    [k \in 1..(Len(history) - 1) |->
        RSub(RDiv(history[k + 1].equity, history[k].equity), ROne)]

\* The float +inf
PosInf == [kind |-> "posinf"]

\* The float holding the rational x, as a score
FromRat(x) == Num(RSign(x), RMul(x, x))

\* returns[returns < target_return], target_return = 0
Downside(returns) == SelectSeq(returns, LAMBDA r : RLt(r, RZero))

\* annualized_return / downside_vol = sqrt(252) * mean / downside std;
\* "downside_returns.std() == 0" returns 0.0
SortinoFrom(mu, dvar) == IF dvar = RZero THEN ZeroScore ELSE SharpeOf(mu, dvar)

\* calculate_sortino_ratio with risk_free_rate = 0, target_return = 0.
\* The std of a single downside sample is NaN, which is not == 0.
calculate_sortino_ratio(returns) ==
    IF returns = <<>> THEN ZeroScore
    ELSE IF Downside(returns) = <<>> THEN ZeroScore
    ELSE IF Len(Downside(returns)) = 1 THEN NaN
    ELSE SortinoFrom(RMean(returns), RVar(Downside(returns)))

\* (1 + returns).cumprod()
RECURSIVE CumProd(_, _)
CumProd(returns, k) ==
    IF k = 0 THEN ROne ELSE RMul(CumProd(returns, k - 1), RAdd(ROne, returns[k]))

\* rolling(window=252, min_periods=1).max() of series shorter than the
\* window: the running maximum
RECURSIVE RollingMax(_, _)
RollingMax(cumulative, k) ==
    IF k = 1 THEN cumulative[1]
    ELSE RMax(RollingMax(cumulative, k - 1), cumulative[k])

\* (cumulative - peak) / peak; 0 / 0 is nan (for returns >= -1 the peak is
\* 0 only where cumulative is 0)
DrawdownAt(c, pk) == IF pk = RZero THEN RNaN ELSE RDiv(RSub(c, pk), pk)

\* Series.min(): the least value that is not nan, nan when there is none
MinSkipNaN(xs) ==
    IF \A k \in 1..Len(xs) : IsNaN(xs[k]) THEN RNaN
    ELSE xs[CHOOSE k \in 1..Len(xs) :
                /\ ~IsNaN(xs[k])
                /\ \A j \in 1..Len(xs) : IsNaN(xs[j]) \/ RLe(xs[k], xs[j])]

\* abs(drawdown.min())
MaxDrawdownOf(cumulative) ==
    RAbs(MinSkipNaN([k \in 1..Len(cumulative) |->
                        DrawdownAt(cumulative[k], RollingMax(cumulative, k))]))

\* "if max_drawdown == 0: return 0.0", else returns.mean() * 252 /
\* max_drawdown, which is nan for a nan max_drawdown
CalmarFrom(mu, max_drawdown) ==
    IF IsNaN(max_drawdown) THEN NaN
    ELSE IF max_drawdown = RZero THEN ZeroScore
    ELSE FromRat(RDiv(RMul(mu, I2R(AnnualPeriods)), max_drawdown))

\* calculate_calmar_ratio
calculate_calmar_ratio(returns) ==
    IF returns = <<>> THEN ZeroScore
    ELSE CalmarFrom(RMean(returns),
                    MaxDrawdownOf([k \in 1..Len(returns) |-> CumProd(returns, k)]))

\* "if gross_loss == 0: inf if gross_profit > 0 else 0.0", else the ratio
ProfitFactorFrom(gross_profit, gross_loss) ==
    IF gross_loss = RZero
    THEN (IF RLt(RZero, gross_profit) THEN PosInf ELSE ZeroScore)
    ELSE FromRat(RDiv(gross_profit, gross_loss))

\* returns[returns > 0].sum()
GrossProfit(returns) == RSum(SelectSeq(returns, LAMBDA r : RLt(RZero, r)))

\* abs(returns[returns < 0].sum())
GrossLoss(returns) == RAbs(RSum(Downside(returns)))

\* calculate_profit_factor
calculate_profit_factor(returns) ==
    IF returns = <<>> THEN ZeroScore
    ELSE ProfitFactorFrom(GrossProfit(returns), GrossLoss(returns))

\* Return series offered to the objective functions: up to MaxReturns
\* period returns, none below -100%.
MaxReturns == 3

ReturnValues == {I2R(-1), Rat(-1, 2), RZero, ROne}

ReturnSeries == UNION {[1..n -> ReturnValues] : n \in 0..MaxReturns}

ObjIdle == [fn |-> "none"]

\* One call of each objective function on a return series.
CallSharpe ==
    /\ \E returns \in ReturnSeries :
          obj' = [fn |-> "sharpe", returns |-> returns,
                  result |-> calculate_sharpe_ratio(returns)]
    /\ UNCHANGED <<risk, isplit, dsplit, eng, opt, wfo, agg, strat, cb, reg>>

CallSortino ==
    /\ \E returns \in ReturnSeries :
          obj' = [fn |-> "sortino", returns |-> returns,
                  result |-> calculate_sortino_ratio(returns)]
    /\ UNCHANGED <<risk, isplit, dsplit, eng, opt, wfo, agg, strat, cb, reg>>

CallCalmar ==
    /\ \E returns \in ReturnSeries :
          obj' = [fn |-> "calmar", returns |-> returns,
                  result |-> calculate_calmar_ratio(returns)]
    /\ UNCHANGED <<risk, isplit, dsplit, eng, opt, wfo, agg, strat, cb, reg>>

CallProfitFactor ==
    /\ \E returns \in ReturnSeries :
          obj' = [fn |-> "profit_factor", returns |-> returns,
                  result |-> calculate_profit_factor(returns)]
    /\ UNCHANGED <<risk, isplit, dsplit, eng, opt, wfo, agg, strat, cb, reg>>

(***************************************************************************)
(* strategies/signal_strategy.py: ProbabilisticTrendStrategy               *)
(* A signal frame is a sequence of rows [timestamp, asset, direction,      *)
(* probability] indexed by timestamp.                                      *)
(***************************************************************************)
\* generate_allocations: one allocation per signal at or above the
\* confidence threshold, weight = direction * probability.
generate_allocations(params, signals) ==
    LET kept == SelectSeq(signals,
                   LAMBDA sg : RLe(params.confidence_threshold, sg.probability))
    IN  [k \in 1..Len(kept) |->
            [date |-> kept[k].timestamp, asset |-> kept[k].asset,
             weight |-> RMul(I2R(kept[k].direction), kept[k].probability)]]

(***************************************************************************)
(* optimization/optimizer.py: StrategyOptimizer                            *)
(***************************************************************************)
\* initial_capital of the engines built by the optimizer and by run_wfo
OptCapital == 100000

\* BacktestEngine(initial_capital=100_000, slippage_bps=0, commission_bps=0)
OptEngine == NewEngine(I2R(OptCapital), 0, 0)

\* The parameter sets param_space can sample.
ParamSpace ==
    {[confidence_threshold |-> Rat(1, 2), max_cap |-> Rat(1, 5)],
     [confidence_threshold |-> Rat(3, 4), max_cap |-> Rat(1, 5)]}

\* Where a runtime fault may strike inside one trial.
FaultPoints == {"sample", "construct", "allocate", "backtest", "score"}

NoFault == "none"

NoEngine == [commission_bps |-> -1, slippage_bps |-> -1]

\* The try block of objective once the backtest has run: an empty history
\* or a fault while scoring gives -inf, else the Sharpe ratio.
ScoreBacktest(e, fault) ==
    [raised |-> FALSE,
     value |-> IF e.history = <<>> \/ fault = "score" THEN NegInf
               ELSE calculate_sharpe_ratio(PctChange(e.history)),
     engine |-> [commission_bps |-> e.commission_bps,
                 slippage_bps |-> e.slippage_bps]]

\* objective(trial) with the try block widened to the whole trial:
\* every fault is scored -inf.
ObjectiveCatchAll(data, signal_objects, params, fault) ==
    IF fault # NoFault
    THEN [raised |-> FALSE, value |-> NegInf, engine |-> NoEngine]
    ELSE ScoreBacktest(RunBacktest(OptEngine, data,
                           generate_allocations(params, signal_objects)), fault)

\* objective(trial), metric = 'sharpe'.  Sampling, strategy construction
\* and generate_allocations run before the try block: a fault there
\* leaves the objective as an exception.  Inside the try block (backtest,
\* scoring) a fault is caught and scored -inf; so is an empty history.
Objective(data, signal_objects, params, fault) ==
    IF fault \in {"sample", "construct", "allocate"}
    THEN [raised |-> TRUE, value |-> NaN, engine |-> NoEngine]
    ELSE IF fault = "backtest"
    THEN [raised |-> FALSE, value |-> NegInf,
          engine |-> [commission_bps |-> OptEngine.commission_bps,
                      slippage_bps |-> OptEngine.slippage_bps]]
    ELSE ScoreBacktest(RunBacktest(OptEngine, data,
                           generate_allocations(params, signal_objects)), fault)

\* What study.optimize records for a trial whose objective returned:
\* a NaN value fails the trial, any other value completes it.
TrialRecord(params, fault, out) ==
    [params |-> params, fault |-> fault, value |-> out.value,
     state |-> IF out.value.kind = "nan" THEN "FAIL" ELSE "COMPLETE",
     engine |-> out.engine]

\* study.best_trial that lets a later equal value replace the best.
RECURSIVE BestIndexLastWins(_, _)
BestIndexLastWins(trials, k) ==
    IF k = 0 THEN 0
    ELSE LET b == BestIndexLastWins(trials, k - 1)
         IN  IF trials[k].state # "COMPLETE" THEN b
             ELSE IF b = 0 THEN k
             ELSE IF ScoreLt(trials[k].value, trials[b].value) THEN b
             ELSE k

\* Index of study.best_trial among trials 1..k: the first completed trial
\* holding the maximum value (0 when none completed).  A later trial
\* replaces the best only when strictly greater.
RECURSIVE BestIndex(_, _)
BestIndex(trials, k) ==
    IF k = 0 THEN 0
    ELSE LET b == BestIndex(trials, k - 1)
         IN  IF trials[k].state # "COMPLETE" THEN b
             ELSE IF b = 0 THEN k
             ELSE IF ScoreLt(trials[b].value, trials[k].value) THEN k
             ELSE b

\* study.optimize(objective, n_trials) over the sampler's choices, a
\* sequence of [params, fault]: trials run in order; an exception leaving
\* the objective stops the study and propagates.
RECURSIVE RunTrials(_, _, _, _)
RunTrials(data, signal_objects, choices, done) ==
    IF choices = <<>> THEN [raised |-> FALSE, trials |-> done]
    ELSE LET c == Head(choices)
             out == Objective(data, signal_objects, c.params, c.fault)
         IN  IF out.raised
             THEN [raised |-> TRUE, trials |-> done]
             ELSE RunTrials(data, signal_objects, Tail(choices),
                            Append(done, TrialRecord(c.params, c.fault, out)))

\* return study.best_params, which raises ValueError when no trial
\* completed (b = 0).
BestParams(study, b) ==
    [raised |-> study.raised \/ b = 0,
     trials |-> study.trials,
     best_params |-> IF study.raised \/ b = 0 THEN <<>>
                     ELSE study.trials[b].params]

\* The study is over (or was left by an exception): pick its best trial.
StudyResult(study) == BestParams(study, BestIndex(study.trials, Len(study.trials)))

\* StrategyOptimizer(...).optimize(param_space, n_trials)
Optimize(data, signals, choices) ==
    StudyResult(RunTrials(data, signals, choices, <<>>))

\* Inputs offered to a stand-alone optimize call.
MaxTrials == 2

MaxOptDates == 3

OptPrices == {I2R(1), I2R(2)}

Sig(t, direction, probability) ==
    [timestamp |-> t, asset |-> "GOLD", direction |-> direction,
     probability |-> probability]

\* What one signal may say, and what two signals in a row may say.
OptSignalKinds == {<<1, Rat(3, 4)>>, <<1, Rat(1, 2)>>, <<-1, Rat(3, 4)>>}

OptSignalPairs ==
    {<<<<1, Rat(3, 4)>>, <<1, Rat(1, 2)>>>>,
     <<<<1, Rat(1, 2)>>, <<-1, Rat(3, 4)>>>>,
     <<<<-1, Rat(3, 4)>>, <<1, Rat(3, 4)>>>>}

\* Signal frames with at most two signals on the given timestamps.
SignalFrames(dates) ==
    {<<>>}
    \cup {<<Sig(t, k[1], k[2])>> : t \in dates, k \in OptSignalKinds}
    \cup {<<Sig(d[1], kk[1][1], kk[1][2]), Sig(d[2], kk[2][1], kk[2][2])>> :
            d \in {x \in dates \X dates : x[1] < x[2]}, kk \in OptSignalPairs}

\* Faults injected so far into the study.
FaultCount(trials) ==
    Cardinality({k \in 1..Len(trials) : trials[k].fault # NoFault})

OptIdle == [pc |-> "idle"]

\* optimizer = StrategyOptimizer(strategy_class, data, signals);
\* optimizer.optimize(param_space, n_trials) creates the study.
OptStart ==
    /\ opt.pc = "idle"
    /\ \E n \in 0..MaxOptDates, n_trials \in 1..MaxTrials :
       \E px \in [1..n -> OptPrices], sigs \in SignalFrames(1..n) :
          opt' = [pc |-> "study",
                  data |-> [k \in 1..n |-> [date |-> k, prices |-> [GOLD |-> px[k]]]],
                  signals |-> sigs,
                  n_trials |-> n_trials,
                  trials |-> <<>>,
                  raised_in |-> NoFault,
                  best_params |-> <<>>]
    /\ UNCHANGED <<risk, isplit, dsplit, eng, wfo, obj, agg, strat, cb, reg>>

\* One trial of study.optimize: the sampler picks params, the objective
\* runs; an exception leaving it ends optimize.
OptTrial ==
    /\ opt.pc = "study"
    /\ Len(opt.trials) < opt.n_trials
    /\ \E params \in ParamSpace, fault \in FaultPoints \cup {NoFault} :
          \* at most one fault is injected into a study
          /\ fault # NoFault => FaultCount(opt.trials) = 0
          /\ LET out == Objective(opt.data, opt.signals, params, fault)
             IN  IF out.raised
                 THEN opt' = [opt EXCEPT !.pc = "raised", !.raised_in = fault]
                 ELSE opt' = [opt EXCEPT
                                 !.trials = Append(@, TrialRecord(params, fault, out))]
    /\ UNCHANGED <<risk, isplit, dsplit, eng, wfo, obj, agg, strat, cb, reg>>

\* All trials ran: return study.best_params (ValueError when no trial
\* completed).
OptReturn ==
    /\ opt.pc = "study"
    /\ Len(opt.trials) = opt.n_trials
    /\ LET b == BestIndex(opt.trials, Len(opt.trials))
       IN  IF b = 0
           THEN opt' = [opt EXCEPT !.pc = "raised", !.raised_in = "best_params"]
           ELSE opt' = [opt EXCEPT !.pc = "returned",
                                   !.best_params = opt.trials[b].params]
    /\ UNCHANGED <<risk, isplit, dsplit, eng, wfo, obj, agg, strat, cb, reg>>

\* The parameter sets the sampler drew, in trial order.
Sampled(trials) == [k \in 1..Len(trials) |-> trials[k].params]

\* A second optimizer.optimize(param_space, n_trials) on the same data,
\* signals, param_space and n_trials after the first call returned:
\* optuna.create_study(direction='maximize') makes a new study with a new
\* default sampler.  The first call's draws and result are kept aside.
OptAgain ==
    /\ opt.pc = "returned"
    /\ "previous" \notin DOMAIN opt
    /\ opt' = [pc |-> "study",
               data |-> opt.data,
               signals |-> opt.signals,
               n_trials |-> opt.n_trials,
               trials |-> <<>>,
               raised_in |-> NoFault,
               best_params |-> <<>>,
               previous |-> [sampled |-> Sampled(opt.trials),
                             best_params |-> opt.best_params]]
    /\ UNCHANGED <<risk, isplit, dsplit, eng, wfo, obj, agg, strat, cb, reg>>

(***************************************************************************)
(* optimization/wfo.py: WalkForwardOptimizer                               *)
(***************************************************************************)
\* list(self.splitter.split(self.data)): the folds of the date-based
\* splitter from current_train_start on (dates non-empty, step >= 1).
RECURSIVE SplitFrom(_, _, _, _, _)
SplitFrom(dates, current_train_start, train_window, test_window, step) ==
    LET w == Windows(current_train_start, train_window, test_window)
        train == TrainMask(dates, w)
        test == TestMask(dates, w)
        rest == SplitFrom(dates, current_train_start + step * DayHours,
                          train_window, test_window, step)
    IN  IF w.test_end > SetMax(dates) THEN <<>>
        ELSE IF train # {} /\ test # {}
             THEN <<[train |-> train, test |-> test, window |-> w]>> \o rest
             ELSE rest

\* data[mask]: the rows of a frame whose date is in the mask
Rows(data, mask) == SelectSeq(data, LAMBDA r : r.date \in mask)

\* self.signals.loc[self.signals.index.isin(frame.index)]
SignalsIn(signals, mask) == SelectSeq(signals, LAMBDA sg : sg.timestamp \in mask)

\* What run_wfo hands to StrategyOptimizer for a fold, with the test rows
\* and test signals added to the train ones.
FoldOptimizerInputsLeaky(data, signals, fold) ==
    [data |-> Rows(data, fold.train \cup fold.test),
     signals |-> SignalsIn(signals, fold.train \cup fold.test)]

\* What run_wfo hands to StrategyOptimizer for a fold: train_data and the
\* signals whose index is in train_data.index.
FoldOptimizerInputs(data, signals, fold) ==
    [data |-> Rows(data, fold.train),
     signals |-> SignalsIn(signals, fold.train)]

\* BacktestEngine(initial_capital=100_000, slippage_bps=0, commission_bps=0)
\* built by run_wfo for the out-of-sample run.
WfoEngine == NewEngine(I2R(OptCapital), 0, 0)

\* The record of a fold from its out-of-sample engine and returns.
FoldEntry(i, fold, opt_out, engine, returns) ==
    [fold |-> i,
     test_start |-> SetMin(fold.test),
     test_end |-> SetMax(fold.test),
     oos_sharpe |-> calculate_sharpe_ratio(returns),
     oos_return |-> RSum(returns),
     best_params |-> opt_out.best_params,
     \* not columns of the result frame: the trials' values and the
     \* engines the fold built
     trial_values |-> [k \in 1..Len(opt_out.trials) |-> opt_out.trials[k].value],
     trial_engines |-> [k \in 1..Len(opt_out.trials) |-> opt_out.trials[k].engine],
     oos_engine |-> [commission_bps |-> engine.commission_bps,
                     slippage_bps |-> engine.slippage_bps]]

\* returns = perf['equity'].pct_change().dropna(), empty for an empty perf
OosReturns(i, fold, opt_out, engine) ==
    FoldEntry(i, fold, opt_out, engine,
              IF engine.history = <<>> THEN <<>> ELSE PctChange(engine.history))

\* Step 2 of a fold: the out-of-sample backtest of best_params on the test
\* slice and its record.
FoldRecord(i, data, signals, fold, opt_out) ==
    OosReturns(i, fold, opt_out,
               RunBacktest(WfoEngine, Rows(data, fold.test),
                           generate_allocations(opt_out.best_params,
                                                SignalsIn(signals, fold.test))))

\* A second run's inputs: the same as (data, signals) except at one
\* timestamp strictly inside the fold's test window, where the price is
\* changed, the signals are dropped, or a signal is added.
FlipPrice(px) == IF px = I2R(1) THEN I2R(2) ELSE I2R(1)

Perturbations(data, signals, fold) ==
    LET inside == {t \in fold.test :
                      fold.window.test_start < t /\ t < fold.window.test_end}
    IN  {[data |-> [k \in 1..Len(data) |->
                       IF data[k].date = t
                       THEN [date |-> t,
                             prices |-> [GOLD |-> FlipPrice(data[k].prices.GOLD)]]
                       ELSE data[k]],
          signals |-> signals] : t \in inside}
        \cup
        {[data |-> data,
          signals |-> SelectSeq(signals, LAMBDA sg : sg.timestamp # t)
                      \o (IF \E k \in 1..Len(signals) : signals[k].timestamp = t
                          THEN <<>> ELSE <<Sig(t, 1, Rat(1, 2))>>)] : t \in inside}

\* Inputs offered to run_wfo: daily frames of MaxWfoDays rows whose price
\* changes at most once, and at most one signal.
MaxWfoDays == 6

WfoPricePaths(n) ==
    {px \in [1..n -> OptPrices] :
        Cardinality({k \in 1..(n - 1) : px[k] # px[k + 1]}) <= 1}

WfoSignalFrames(dates) ==
    {<<>>} \cup {<<Sig(t, k[1], k[2])>> : t \in dates, k \in OptSignalKinds}

WfoIdle == [pc |-> "idle"]

\* WalkForwardOptimizer(strategy_class, data, signals, ...).run_wfo(...)
\* up to the loop: splits = list(self.splitter.split(self.data)).
WfoStart ==
    /\ wfo.pc = "idle"
    /\ \E n \in {MaxWfoDays},
          train_window_days \in 1..MaxWindowDays,
          test_window_days \in 1..MaxWindowDays :
       \E px \in WfoPricePaths(n),
          sigs \in WfoSignalFrames({(k - 1) * DayHours : k \in 1..n}) :
          LET data == [k \in 1..n |-> [date |-> (k - 1) * DayHours,
                                       prices |-> [GOLD |-> px[k]]]]
              dates == {data[k].date : k \in 1..n}
          IN  wfo' = [pc |-> "loop", data |-> data, signals |-> sigs,
                      train_window_days |-> train_window_days,
                      test_window_days |-> test_window_days,
                      step_days |-> 1,
                      splits |-> SplitFrom(dates, SetMin(dates), train_window_days,
                                           test_window_days, 1),
                      results |-> <<>>, perturbed |-> <<>>]
    /\ UNCHANGED <<risk, isplit, dsplit, eng, opt, obj, agg, strat, cb, reg>>

\* best_params a second run selects for the fold, with the same sampler
\* choices, on each perturbed input.
Reruns(data, signals, fold, choices) ==
    {Optimize(FoldOptimizerInputs(q.data, q.signals, fold).data,
              FoldOptimizerInputs(q.data, q.signals, fold).signals,
              choices).best_params :
        q \in Perturbations(data, signals, fold)}

\* The fold once optimize is over: an exception from optimize ends
\* run_wfo, else the fold's record is appended.
FoldOutcome(w, i, fold, choices, opt_out) ==
    IF opt_out.raised
    THEN [w EXCEPT !.pc = "raised"]
    ELSE [w EXCEPT
             !.results = Append(@, FoldRecord(i, w.data, w.signals, fold, opt_out)),
             !.perturbed = Append(@, Reruns(w.data, w.signals, fold, choices))]

\* Step 1 of a fold: optimise on the train slice.
FoldStep(w, i, fold, choices) ==
    FoldOutcome(w, i, fold, choices,
                Optimize(FoldOptimizerInputs(w.data, w.signals, fold).data,
                         FoldOptimizerInputs(w.data, w.signals, fold).signals,
                         choices))

\* One iteration of the fold loop with two trials: optimise on the train
\* slice, validate on the test slice, append the record.  "perturbed"
\* keeps what Reruns selects for the fold.
WfoFold ==
    /\ wfo.pc = "loop"
    /\ Len(wfo.results) < Len(wfo.splits)
    /\ \E first \in ParamSpace, second \in ParamSpace :
          wfo' = FoldStep(wfo, Len(wfo.results), wfo.splits[Len(wfo.results) + 1],
                          <<[params |-> first, fault |-> NoFault],
                            [params |-> second, fault |-> NoFault]>>)
    /\ UNCHANGED <<risk, isplit, dsplit, eng, opt, obj, agg, strat, cb, reg>>

\* The loop is over: run_wfo returns the result frame.
WfoReturn ==
    /\ wfo.pc = "loop"
    /\ Len(wfo.results) = Len(wfo.splits)
    /\ wfo' = [wfo EXCEPT !.pc = "returned"]
    /\ UNCHANGED <<risk, isplit, dsplit, eng, opt, obj, agg, strat, cb, reg>>

(***************************************************************************)
(* optimization/aggregator.py: MetricsAggregator                            *)
(***************************************************************************)
AggIdle == [fn |-> "none"]

\* The empty dict.
EmptyDict == <<>>

\* get_best_params_across_folds(wfo_results): wfo_results is the frame as
\* stored, a sequence of rows; iloc[-1] is its last row.
get_best_params_across_folds(wfo_results) ==
    IF wfo_results = <<>> THEN EmptyDict
    ELSE wfo_results[Len(wfo_results)].best_params

\* Frames offered: rows of distinct folds, stored in any order.  Fold k has
\* the test window that starts on day k.
MaxAggFolds == 4

FoldRow(k, best_params) ==
    [fold |-> k, test_start |-> k * DayHours, test_end |-> (k + 1) * DayHours,
     best_params |-> best_params]

AggFrames ==
    UNION {{f \in [1..n -> {FoldRow(k, bp) : k \in 1..MaxAggFolds, bp \in ParamSpace}] :
                \A i, j \in 1..n : i # j => f[i].fold # f[j].fold} :
           n \in 0..MaxAggFolds}

\* MetricsAggregator.get_best_params_across_folds(wfo_results); the frame
\* is read only, so it is the same after the call.
CallGetBestParams ==
    /\ \E wfo_results \in AggFrames :
          agg' = [fn |-> "get_best_params_across_folds",
                  wfo_results |-> wfo_results,
                  after |-> wfo_results,
                  result |-> get_best_params_across_folds(wfo_results)]
    /\ UNCHANGED <<risk, isplit, dsplit, eng, opt, wfo, obj, strat, cb, reg>>

(***************************************************************************)
(* strategies/strategy_base.py: BaseStrategy                               *)
(***************************************************************************)
StratIdle == [op |-> "none"]

\* A dict from symbols to floats is a function on the set of its keys.
Symbols == {"GOLD", "OIL"}

Dicts(values) == UNION {[keys -> values] : keys \in SUBSET Symbols}

\* run_step that clamps the raw size first and scales it afterwards.
run_step_clamp_first(profile, state, raw_signals) ==
    IF ~check_drawdown(state.current_equity, state.peak_equity,
                       profile.max_drawdown)
    THEN [generated |-> FALSE,
          result |-> [sym \in DOMAIN state.positions |-> RZero]]
    ELSE [generated |-> TRUE,
          result |-> [symbol \in DOMAIN raw_signals |->
                        RMul(validate_position_size(raw_signals[symbol],
                                                    state.current_equity,
                                                    profile.position_limit_pct),
                             get_vol_scalar(state.current_volatility,
                                            profile.vol_target))]]

\* BaseStrategy.run_step(context, state): generated tells whether
\* generate_raw_signals(context) was called, raw_signals is what it
\* returns when called.
run_step(profile, state, raw_signals) ==
    IF ~check_drawdown(state.current_equity, state.peak_equity,
                       profile.max_drawdown)
    THEN [generated |-> FALSE,
          result |-> [sym \in DOMAIN state.positions |-> RZero]]
    ELSE [generated |-> TRUE,
          result |-> [symbol \in DOMAIN raw_signals |->
                        validate_position_size(
                            RMul(raw_signals[symbol],
                                 get_vol_scalar(state.current_volatility,
                                                profile.vol_target)),
                            state.current_equity,
                            profile.position_limit_pct)]]

\* Profiles, portfolio states and raw signals offered to run_step.
StratProfiles ==
    {[max_drawdown |-> Rat(1, 5), vol_target |-> Rat(3, 20),
      position_limit_pct |-> Rat(1, 5)]}

StratStates ==
    [current_equity : {I2R(-100), RZero, I2R(80), I2R(100)},
     peak_equity : {I2R(-100), I2R(100)},
     current_volatility : {Rat(1, 10), Rat(3, 10)},
     positions : Dicts({I2R(10)})]

StratRawSignals == Dicts({I2R(-50), I2R(10), I2R(50)})

\* strategy.run_step(context, state)
RunStep ==
    /\ strat.op = "none"
    /\ \E profile \in StratProfiles, state \in StratStates,
          raw_signals \in StratRawSignals :
          strat' = [op |-> "run_step", profile |-> profile, state |-> state,
                    raw_signals |-> raw_signals,
                    out |-> run_step(profile, state, raw_signals)]
    /\ UNCHANGED <<risk, isplit, dsplit, eng, opt, wfo, obj, agg, cb, reg>>

(***************************************************************************)
(* ops/circuit_breaker.py: CircuitBreaker                                  *)
(***************************************************************************)
\* No breaker has been constructed.
CbIdle == [state |-> "none"]

\* Bounds: thresholds, timeout and clock (in seconds), calls made.
MaxThreshold == 2

MaxTimeout == 1

MaxClock == 3

MaxCalls == 6

\* What a wrapped function may return.
FuncResults == {"a", "b"}

\* CircuitBreaker(failure_threshold, timeout_seconds, success_threshold).
\* Beside the object's fields the record keeps the clock (now) and a
\* history of the calls made: their number, what the last one did
\* (outcome: "returned", "raised" by the function, "rejected" by the
\* breaker), what the function did (func: its result, or "raise"), whether
\* it was invoked and what the caller got back, the run of failed
\* invocations since the last success (streak) and the successful
\* invocations made in HALF_OPEN since it was last entered (trial).
NewBreaker(failure_threshold, timeout_seconds, success_threshold) ==
    [failure_threshold |-> failure_threshold,
     timeout |-> timeout_seconds,
     success_threshold |-> success_threshold,
     state |-> "CLOSED",
     failure_count |-> 0,
     success_count |-> 0,
     last_failure_time |-> None,
     now |-> 0, calls |-> 0, outcome |-> "none", func |-> "none",
     invoked |-> FALSE, returned |-> "none", streak |-> 0, trial |-> 0]

\* The head of call that keeps success_count when it lets a call through.
AdmitKeepCount(b) ==
    IF b.state = "OPEN"
    THEN IF b.now - b.last_failure_time > b.timeout
         THEN [b EXCEPT !.state = "HALF_OPEN", !.trial = 0]
         ELSE [b EXCEPT !.outcome = "rejected"]
    ELSE b

\* The head of call: an OPEN breaker lets the call through in HALF_OPEN
\* once the timeout has passed since the last failure, else it raises.
Admit(b) ==
    IF b.state = "OPEN"
    THEN IF b.now - b.last_failure_time > b.timeout
         THEN [b EXCEPT !.state = "HALF_OPEN", !.success_count = 0, !.trial = 0]
         ELSE [b EXCEPT !.outcome = "rejected"]
    ELSE b

\* _on_success
on_success(b) ==
    IF b.state = "HALF_OPEN"
    THEN IF b.success_count + 1 >= b.success_threshold
         THEN [b EXCEPT !.success_count = @ + 1, !.state = "CLOSED",
                        !.failure_count = 0]
         ELSE [b EXCEPT !.success_count = @ + 1]
    ELSE [b EXCEPT !.failure_count = 0]

\* _on_failure that opens only above the threshold.
on_failure_late(b) ==
    [b EXCEPT !.failure_count = @ + 1,
              !.last_failure_time = b.now,
              !.state = IF b.failure_count + 1 > b.failure_threshold
                        THEN "OPEN" ELSE @]

\* _on_failure
on_failure(b) ==
    [b EXCEPT !.failure_count = @ + 1,
              !.last_failure_time = b.now,
              !.state = IF b.failure_count + 1 >= b.failure_threshold
                        THEN "OPEN" ELSE @]

\* call(func) from the try on, for an admitted call: func returns result,
\* or raises (result = "raise").
Invoke(b, result) ==
    IF result = "raise"
    THEN [on_failure(b) EXCEPT !.outcome = "raised", !.invoked = TRUE,
                               !.returned = "none", !.streak = @ + 1]
    ELSE [on_success(b) EXCEPT !.outcome = "returned", !.invoked = TRUE,
                               !.returned = result, !.streak = 0,
                               !.trial = IF b.state = "HALF_OPEN"
                                         THEN @ + 1 ELSE @]

\* call(func): rejected by the head, or invoked.
CallAdmitted(b, result) ==
    IF b.outcome = "rejected"
    THEN [b EXCEPT !.invoked = FALSE, !.returned = "none"]
    ELSE Invoke(b, result)

call(b, result) ==
    CallAdmitted(Admit([b EXCEPT !.calls = @ + 1, !.outcome = "none",
                                 !.func = result]),
                 result)

\* breaker.call(func) with a func that returns.
CbCallReturns ==
    /\ cb.state # "none"
    /\ cb.calls < MaxCalls
    /\ \E result \in FuncResults : cb' = call(cb, result)
    /\ UNCHANGED <<risk, isplit, dsplit, eng, opt, wfo, obj, agg, strat, reg>>

\* breaker.call(func) with a func that raises.
CbCallRaises ==
    /\ cb.state # "none"
    /\ cb.calls < MaxCalls
    /\ cb' = call(cb, "raise")
    /\ UNCHANGED <<risk, isplit, dsplit, eng, opt, wfo, obj, agg, strat, reg>>

\* breaker.reset()
CbReset ==
    /\ cb.state # "none"
    /\ cb' = [cb EXCEPT !.state = "CLOSED", !.failure_count = 0,
                        !.success_count = 0, !.streak = 0]
    /\ UNCHANGED <<risk, isplit, dsplit, eng, opt, wfo, obj, agg, strat, reg>>

\* A second passes on the clock read by datetime.utcnow().
CbTick ==
    /\ cb.state # "none"
    /\ cb.now < MaxClock
    /\ cb' = [cb EXCEPT !.now = @ + 1]
    /\ UNCHANGED <<risk, isplit, dsplit, eng, opt, wfo, obj, agg, strat, reg>>

(***************************************************************************)
(* core/registry.py: ModelRegistry                                         *)
(***************************************************************************)
\* No registry has been constructed.
RegIdle == [pc |-> "none"]

\* A model_id is a string, kept as the sequence of its pieces with the
\* underscores between them: "tcn_gold_v1" is <<"tcn", "_", "gold", "_", "v1">>.
ModelIds ==
    {<<"tcn", "_", "v1">>, <<"tcn", "_", "v2">>,
     <<"tcn", "_", "gold", "_", "v1">>}

\* Position of the last underscore of a model_id (0 when it has none).
LastUnderscore(model_id) ==
    SetMax({0} \cup {k \in 1..Len(model_id) : model_id[k] = "_"})

\* '_'.join(model_id.split('_')[:-1])
FamilyOf(model_id) ==
    IF LastUnderscore(model_id) = 0 THEN <<>>
    ELSE SubSeq(model_id, 1, LastUnderscore(model_id) - 1)

\* model_id.startswith(model_family)
StartsWith(model_id, model_family) ==
    /\ Len(model_family) <= Len(model_id)
    /\ SubSeq(model_id, 1, Len(model_family)) = model_family

\* get_model(model_id): index of the first entry with that id, 0 for None.
get_model(models, model_id) ==
    SetMin({k \in 1..Len(models) : models[k].model_id = model_id}
           \cup {Len(models) + 1}) % (Len(models) + 1)

\* The champions list of get_champion, as indices into models.
Champions(models, model_family) ==
    {k \in 1..Len(models) :
        StartsWith(models[k].model_id, model_family)
        /\ models[k].status = "champion"}

\* champions.sort(key=promoted_at, reverse=True) compares the keys of two
\* or more entries; a promoted_at of None cannot be compared (TypeError).
SortRaises(models, champions) ==
    /\ Cardinality(champions) >= 2
    /\ \E k \in champions : models[k].promoted_at = None

\* get_champion(model_family) when the sort does not raise: index of the
\* most recently promoted champion, 0 for None.  The sort is stable, so of
\* two champions promoted at the same time the earlier entry comes first.
get_champion(models, champions) ==
    IF champions = {} THEN 0
    ELSE SetMin({k \in champions :
                    \A j \in champions :
                        models[j].promoted_at <= models[k].promoted_at})

\* register(metadata): ValueError on a duplicate id, else the entry is
\* appended with the metadata's status and promoted_at = None.
register(r, model_id, status) ==
    IF get_model(r.models, model_id) # 0
    THEN [r EXCEPT !.last = [op |-> "register", model_id |-> model_id,
                             raised |-> "ValueError", before |-> r.models]]
    ELSE [r EXCEPT !.models = Append(@, [model_id |-> model_id,
                                         status |-> status,
                                         promoted_at |-> None]),
                   !.last = [op |-> "register", model_id |-> model_id,
                             raised |-> "none", before |-> r.models]]

\* The two loops of promote_to_champion: retire the entries with the
\* current champion's id, then promote the entries with model_id.
PromoteEntries(models, model_id, current_champion, now) ==
    [k \in 1..Len(models) |->
        IF models[k].model_id = model_id
        THEN [models[k] EXCEPT !.status = "champion", !.promoted_at = now]
        ELSE IF current_champion # 0
                /\ models[k].model_id = models[current_champion].model_id
             THEN [models[k] EXCEPT !.status = "retired"]
             ELSE models[k]]

\* promote_to_champion(model_id) at time now.
promote_to_champion(r, model_id, champions) ==
    IF get_model(r.models, model_id) = 0
    THEN [r EXCEPT !.last = [op |-> "promote", model_id |-> model_id,
                             raised |-> "ValueError", before |-> r.models]]
    ELSE IF SortRaises(r.models, champions)
    THEN [r EXCEPT !.last = [op |-> "promote", model_id |-> model_id,
                             raised |-> "TypeError", before |-> r.models]]
    ELSE [r EXCEPT !.models = PromoteEntries(@, model_id,
                                             get_champion(@, champions),
                                             r.now + 1),
                   !.now = @ + 1,
                   !.last = [op |-> "promote", model_id |-> model_id,
                             raised |-> "none", before |-> r.models]]

\* Promotions made in one run.
MaxPromotions == 3

\* registry.register(ModelMetadata(model_id=..., status=...)): status is
\* "candidate" unless the caller gives another.
RegRegister ==
    /\ reg.pc = "ready"
    /\ \E model_id \in ModelIds, status \in {"candidate", "champion"} :
          reg' = register(reg, model_id, status)
    /\ UNCHANGED <<risk, isplit, dsplit, eng, opt, wfo, obj, agg, strat, cb>>

\* registry.promote_to_champion(model_id); each promotion reads a later
\* datetime.utcnow().
RegPromote ==
    /\ reg.pc = "ready"
    /\ reg.now < MaxPromotions
    /\ \E model_id \in ModelIds :
          reg' = promote_to_champion(reg, model_id,
                                     Champions(reg.models, FamilyOf(model_id)))
    /\ UNCHANGED <<risk, isplit, dsplit, eng, opt, wfo, obj, agg, strat, cb>>

(***************************************************************************)
(* Specifications                                                          *)
(***************************************************************************)
InitRisk ==
    /\ RiskInit
    /\ isplit = ISplitIdle /\ dsplit = DSplitIdle
    /\ eng = EngIdle /\ opt = OptIdle /\ wfo = WfoIdle
    /\ obj = ObjIdle
    /\ agg = AggIdle /\ strat = StratIdle /\ cb = CbIdle /\ reg = RegIdle

NextRisk == CheckDrawdown \/ ValidatePositionSize

SpecRisk == InitRisk /\ [][NextRisk]_vars

NextProfile == NewRiskProfile \/ NewCapitalConstitution

SpecProfile == InitRisk /\ [][NextProfile]_vars

NextVolScalar == GetVolScalar

SpecVolScalar == InitRisk /\ [][NextVolScalar]_vars

InitISplit ==
    /\ isplit = ISplitIdle
    /\ risk = RiskIdle /\ dsplit = DSplitIdle
    /\ eng = EngIdle /\ opt = OptIdle /\ wfo = WfoIdle
    /\ obj = ObjIdle
    /\ agg = AggIdle /\ strat = StratIdle /\ cb = CbIdle /\ reg = RegIdle

NextISplit == ISplitStart \/ ISplitYield \/ ISplitDone

SpecISplit == InitISplit /\ [][NextISplit]_vars

InitDSplit ==
    /\ dsplit = DSplitIdle
    /\ risk = RiskIdle /\ isplit = ISplitIdle
    /\ eng = EngIdle /\ opt = OptIdle /\ wfo = WfoIdle
    /\ obj = ObjIdle
    /\ agg = AggIdle /\ strat = StratIdle /\ cb = CbIdle /\ reg = RegIdle

NextDSplit == DSplitStart \/ DSplitIter

SpecDSplit == InitDSplit /\ [][NextDSplit]_vars

NextDSplitAnyStep == DSplitStartAnyStep \/ DSplitIterKept

\* list(...) keeps asking the generator for the next fold.
SpecDSplitAnyStep ==
    InitDSplit /\ [][NextDSplitAnyStep]_vars /\ WF_vars(DSplitIterKept)

NextDSplitDaily == DSplitStartDaily \/ DSplitIter

SpecDSplitDaily == InitDSplit /\ [][NextDSplitDaily]_vars

InitEngine ==
    /\ eng = EngIdle
    /\ risk = RiskIdle /\ isplit = ISplitIdle /\ dsplit = DSplitIdle
    /\ opt = OptIdle /\ wfo = WfoIdle
    /\ obj = ObjIdle
    /\ agg = AggIdle /\ strat = StratIdle /\ cb = CbIdle /\ reg = RegIdle

NextEngine == EngStart \/ EngStep \/ EngReturn

SpecEngine == InitEngine /\ [][NextEngine]_vars

NextEngineTwice == EngStart \/ EngStep \/ EngReturn \/ EngAgain

SpecEngineTwice == InitEngine /\ [][NextEngineTwice]_vars

NextEngineGaps == EngStartGaps \/ EngStep \/ EngReturn

SpecEngineGaps == InitEngine /\ [][NextEngineGaps]_vars

NextEngineDust == EngStartDust \/ EngStep \/ EngReturn

SpecEngineDust == InitEngine /\ [][NextEngineDust]_vars

InitObjective ==
    /\ obj = ObjIdle
    /\ agg = AggIdle /\ strat = StratIdle /\ cb = CbIdle /\ reg = RegIdle
    /\ risk = RiskIdle /\ isplit = ISplitIdle /\ dsplit = DSplitIdle
    /\ eng = EngIdle /\ opt = OptIdle /\ wfo = WfoIdle

NextObjective == CallSharpe \/ CallSortino \/ CallCalmar \/ CallProfitFactor

SpecObjective == InitObjective /\ [][NextObjective]_vars

InitAggregator ==
    /\ agg = AggIdle
    /\ obj = ObjIdle /\ strat = StratIdle /\ cb = CbIdle /\ reg = RegIdle
    /\ risk = RiskIdle /\ isplit = ISplitIdle /\ dsplit = DSplitIdle
    /\ eng = EngIdle /\ opt = OptIdle /\ wfo = WfoIdle

NextAggregator == CallGetBestParams

SpecAggregator == InitAggregator /\ [][NextAggregator]_vars

\* The state after CircuitBreaker(...) was constructed.
InitBreaker ==
    /\ \E ft \in 1..MaxThreshold, to \in 0..MaxTimeout, st \in 1..MaxThreshold :
          cb = NewBreaker(ft, to, st)
    /\ agg = AggIdle /\ obj = ObjIdle /\ strat = StratIdle /\ reg = RegIdle
    /\ risk = RiskIdle /\ isplit = ISplitIdle /\ dsplit = DSplitIdle
    /\ eng = EngIdle /\ opt = OptIdle /\ wfo = WfoIdle

NextBreaker == CbCallReturns \/ CbCallRaises \/ CbReset \/ CbTick

SpecBreaker == InitBreaker /\ [][NextBreaker]_vars

\* ModelRegistry(registry_path) with no registry file yet: _load gives [].
InitRegistry ==
    /\ reg = [pc |-> "ready", models |-> <<>>, now |-> 0,
              last |-> [op |-> "none"]]
    /\ agg = AggIdle /\ obj = ObjIdle /\ strat = StratIdle /\ cb = CbIdle
    /\ risk = RiskIdle /\ isplit = ISplitIdle /\ dsplit = DSplitIdle
    /\ eng = EngIdle /\ opt = OptIdle /\ wfo = WfoIdle

NextRegistry == RegRegister \/ RegPromote

SpecRegistry == InitRegistry /\ [][NextRegistry]_vars

InitStrategy ==
    /\ strat = StratIdle
    /\ agg = AggIdle /\ obj = ObjIdle /\ cb = CbIdle /\ reg = RegIdle
    /\ risk = RiskIdle /\ isplit = ISplitIdle /\ dsplit = DSplitIdle
    /\ eng = EngIdle /\ opt = OptIdle /\ wfo = WfoIdle

NextStrategy == RunStep

SpecStrategy == InitStrategy /\ [][NextStrategy]_vars

InitOpt ==
    /\ opt = OptIdle
    /\ risk = RiskIdle /\ isplit = ISplitIdle /\ dsplit = DSplitIdle
    /\ eng = EngIdle /\ wfo = WfoIdle
    /\ obj = ObjIdle
    /\ agg = AggIdle /\ strat = StratIdle /\ cb = CbIdle /\ reg = RegIdle

NextOpt == OptStart \/ OptTrial \/ OptReturn

SpecOpt == InitOpt /\ [][NextOpt]_vars

NextOptTwice == OptStart \/ OptTrial \/ OptReturn \/ OptAgain

SpecOptTwice == InitOpt /\ [][NextOptTwice]_vars

InitWfo ==
    /\ wfo = WfoIdle
    /\ risk = RiskIdle /\ isplit = ISplitIdle /\ dsplit = DSplitIdle
    /\ eng = EngIdle /\ opt = OptIdle
    /\ obj = ObjIdle
    /\ agg = AggIdle /\ strat = StratIdle /\ cb = CbIdle /\ reg = RegIdle

NextWfo == WfoStart \/ WfoFold \/ WfoReturn

SpecWfo == InitWfo /\ [][NextWfo]_vars

(***************************************************************************)
(* Properties of the splitters                                             *)
(***************************************************************************)
\* C2: in every fold of the date-based splitter the last train timestamp
\* plus the embargo is not after the first test timestamp, so no timestamp
\* is in both slices.
C2_TemporalOrdering ==
    dsplit.pc # "idle" =>
        \A i \in 1..Len(dsplit.folds) :
            LET f == dsplit.folds[i]
            IN  /\ SetMax(f.train) + EmbargoHours <= SetMin(f.test)
                /\ f.train \cap f.test = {}

\* A fold whose train slice ends on train_end and whose test slice starts
\* exactly one embargo later.
C2_Witness ==
    /\ dsplit.pc # "idle"
    /\ \E i \in 1..Len(dsplit.folds) :
          LET f == dsplit.folds[i]
          IN  /\ SetMax(f.train) = f.window.train_end
              /\ SetMin(f.test) = f.window.train_end + EmbargoHours

\* C3: in every fold of the index-based splitter every train index is
\* smaller than every test index (so the two are disjoint).
C3_TrainBeforeTest ==
    isplit.pc \in {"loop", "done"} =>
        \A i \in 1..Len(isplit.folds) :
            \A a \in isplit.folds[i].train_idx :
                \A b \in isplit.folds[i].test_idx : a < b

\* The whole days between the first and the last timestamp of the index.
TotalDays(d) == (d.end_date - d.start_date) \div DayHours

\* C17 as stated: a finished split of a daily series spanning total_days,
\* with train window T, test window S and step P, has emitted exactly
\* floor((total_days - T - S) / P) + 1 folds when total_days >= T + S.
C17_FoldCountAsStated ==
    (dsplit.pc = "done"
       /\ TotalDays(dsplit) >= dsplit.train_window + dsplit.test_window) =>
        Len(dsplit.folds) =
            (TotalDays(dsplit) - dsplit.train_window - dsplit.test_window)
                \div dsplit.step + 1

\* C17: the test window ends one embargo hour after T + S days, so a finished
\* split of a daily series whose first and last timestamps are total_days
\* days apart has emitted floor((total_days - T - S - 1) / P) + 1 folds when
\* total_days >= T + S + 1, and no fold otherwise.
C17_FoldCount ==
    dsplit.pc = "done" =>
        Len(dsplit.folds) =
            IF TotalDays(dsplit) >= dsplit.train_window + dsplit.test_window + 1
            THEN (TotalDays(dsplit) - dsplit.train_window
                      - dsplit.test_window - 1) \div dsplit.step + 1
            ELSE 0

\* A finished split with a step of two days that emitted three folds, on a
\* span where the count as stated is one more.
C17_Witness ==
    /\ dsplit.pc = "done"
    /\ dsplit.step = 2
    /\ Len(dsplit.folds) = 3
    /\ (TotalDays(dsplit) - dsplit.train_window - dsplit.test_window)
           \div dsplit.step + 1 = 4

\* C18: a split of data smaller than one train + test window, the empty
\* index included, finishes without raising and has emitted no fold.
C18_SmallDataNoFolds ==
    /\ dsplit.pc # "raised"
    /\ (dsplit.pc = "done"
          /\ TotalDays(dsplit) < dsplit.train_window + dsplit.test_window) =>
            dsplit.folds = <<>>

\* C30: every iteration that does not break advances the train start by
\* exactly step days, and a split that has entered its loop finishes.
C30_SplitTerminates ==
    /\ [][(dsplit.pc = "loop" /\ dsplit'.pc = "loop") =>
             dsplit'.current_train_start
                 = dsplit.current_train_start + dsplit.step * DayHours]_vars
    /\ (dsplit.pc = "loop") ~> (dsplit.pc = "done")

(***************************************************************************)
(* Properties of the engine                                                *)
(***************************************************************************)
\* The price row of price_data for a date.
PriceRowOf(price_data, date) ==
    (CHOOSE k \in 1..Len(price_data) : price_data[k].date = date)

\* C4: every recorded PortfolioState has equity = cash + the sum over the
\* held assets of quantity * that date's price.
C4_EquityIdentity ==
    eng.pc \in {"run", "done"} =>
        \A k \in 1..Len(eng.engine.history) :
            LET st == eng.engine.history[k]
                prices == eng.price_data[PriceRowOf(eng.price_data, st.date)].prices
            IN  /\ DOMAIN st.positions \subseteq DOMAIN prices
                /\ st.equity = RAdd(st.cash,
                                    PositionsValue(DOMAIN st.positions,
                                                   st.positions, prices))

\* A state recorded with friction, two open positions and a price that
\* moved since the trade.
C4_Witness ==
    /\ eng.pc = "done"
    /\ eng.engine.commission_bps > 0
    /\ \E k \in 2..Len(eng.engine.history) :
          LET st == eng.engine.history[k]
          IN  /\ {"GOLD", "OIL"} \subseteq DOMAIN st.positions
              /\ st.positions["GOLD"] # RZero
              /\ st.positions["OIL"] # RZero
              /\ eng.price_data[k].prices # eng.price_data[k - 1].prices
              /\ st.equity # st.cash

Frictionless == eng.engine.commission_bps = 0 /\ eng.engine.slippage_bps = 0

\* Every date carries the same allocation rows (asset, weight).
ConstantAllocation ==
    \A j, k \in 1..Len(eng.price_data) :
        LET aj == DailyAllocs(eng.allocations, eng.price_data[j].date)
            ak == DailyAllocs(eng.allocations, eng.price_data[k].date)
        IN  /\ aj # <<>>
            /\ Len(aj) = Len(ak)
            /\ \A r \in 1..Len(aj) : aj[r].asset = ak[r].asset
                                     /\ aj[r].weight = ak[r].weight

AllWeightsZero ==
    \A r \in 1..Len(eng.allocations) : eng.allocations[r].weight = RZero

\* C5 (as stated): with zero commission, zero slippage and the same
\* allocation on every date, the last recorded equity equals the first.
C5_ConservationAsStated ==
    eng.pc = "done" /\ Frictionless /\ ConstantAllocation =>
        eng.engine.history[Len(eng.engine.history)].equity
            = eng.engine.history[1].equity

\* C5 (amended): with zero commission, zero slippage and the same
\* zero-weight (no exposure) allocation on every date, every recorded
\* equity equals the first, which is the initial capital.
C5_EquityConservation ==
    eng.pc \in {"run", "done"} /\ Frictionless /\ ConstantAllocation
        /\ AllWeightsZero =>
        \A k \in 1..Len(eng.engine.history) :
            /\ eng.engine.history[k].equity = eng.engine.history[1].equity
            /\ eng.engine.history[k].equity = eng.engine.initial_capital

\* A finished frictionless run of several dates with a zero-weight
\* allocation on each and a price that moved.
C5_Witness ==
    /\ eng.pc = "done"
    /\ Frictionless /\ ConstantAllocation /\ AllWeightsZero
    /\ Len(eng.engine.history) >= 3
    /\ eng.price_data[1].prices # eng.price_data[Len(eng.price_data)].prices
    /\ "GOLD" \in DOMAIN eng.engine.positions

\* The engine has just rebalanced on the date of its last recorded state.
JustRebalanced ==
    /\ eng.pc \in {"run", "done"}
    /\ eng.i >= 1
    /\ DailyAllocs(eng.allocations, eng.price_data[eng.i].date) # <<>>

\* The rows of that date, its prices and the equity recorded before trading.
LastAllocs == DailyAllocs(eng.allocations, eng.price_data[eng.i].date)

LastPrices == eng.price_data[eng.i].prices

PreTradeEquity == eng.engine.history[Len(eng.engine.history)].equity

\* C28: after a rebalance without commission and slippage, every allocated
\* asset that has a price holds a position worth pre-trade equity *
\* target_weight at that date's price, the same pre-trade equity for every
\* row, and cash is the pre-trade equity less the value of all positions.
C28_RebalanceReachesTarget ==
    (JustRebalanced /\ Frictionless) =>
        /\ \A r \in 1..Len(LastAllocs) :
              LastAllocs[r].asset \in DOMAIN LastPrices =>
                  /\ LastAllocs[r].asset \in DOMAIN eng.engine.positions
                  /\ RMul(eng.engine.positions[LastAllocs[r].asset],
                          LastPrices[LastAllocs[r].asset])
                        = RMul(PreTradeEquity, LastAllocs[r].weight)
        /\ eng.engine.cash
              = RSub(PreTradeEquity,
                     PositionsValue(DOMAIN eng.engine.positions,
                                    eng.engine.positions, LastPrices))

\* A frictionless rebalance of two priced assets on a later date, after the
\* prices moved, from positions that were not on target.
C28_Witness ==
    /\ JustRebalanced /\ Frictionless
    /\ eng.i >= 2
    /\ Len(LastAllocs) = 2
    /\ LastAllocs[1].asset = "GOLD" /\ LastAllocs[2].asset = "OIL"
    /\ eng.price_data[eng.i - 1].prices # LastPrices
    /\ "GOLD" \in DOMAIN eng.engine.history[Len(eng.engine.history)].positions
    /\ eng.engine.history[Len(eng.engine.history)].positions["GOLD"]
          # eng.engine.positions["GOLD"]
    /\ PreTradeEquity # eng.engine.initial_capital

\* Cash plus the positions at the prices of the date just rebalanced.
PostTradeValue == MarkToMarket(eng.engine, LastPrices)

\* The positions recorded before trading on that date.
PreTradePositions == eng.engine.history[Len(eng.engine.history)].positions

\* No quantity changed in the rebalance.
NothingTraded ==
    \A a \in DOMAIN eng.engine.positions :
        eng.engine.positions[a] = IF a \in DOMAIN PreTradePositions
                                  THEN PreTradePositions[a] ELSE RZero

\* C29: a rebalance never leaves cash + sum(quantity * same-date price)
\* above its value before the rebalance, and leaves it equal only when
\* both rates are zero or no quantity changed.
C29_FrictionsNeverCreateValue ==
    JustRebalanced =>
        /\ RLe(PostTradeValue, PreTradeEquity)
        /\ PostTradeValue = PreTradeEquity => (Frictionless \/ NothingTraded)

\* A rebalance of a single asset with slippage that sold and lost value.
C29_Witness ==
    /\ JustRebalanced
    /\ eng.engine.slippage_bps > 0
    /\ Len(LastAllocs) = 1
    /\ LastAllocs[1].asset \in DOMAIN PreTradePositions
    /\ RLt(eng.engine.positions[LastAllocs[1].asset],
           PreTradePositions[LastAllocs[1].asset])
    /\ RLt(PostTradeValue, PreTradeEquity)

\* The engine as constructed, before any run.
FreshEngine(e) == NewEngine(e.initial_capital, e.commission_bps, e.slippage_bps)

\* C27: a second run_backtest on the same engine starts from
\* initial_capital with no positions, and what it returns holds no state
\* or trade of the first run: it is what a fresh engine would return.
C27_RunScoped ==
    "first" \in DOMAIN eng =>
        /\ eng.i = 0 =>
              /\ eng.engine.cash = eng.engine.initial_capital
              /\ eng.engine.positions = <<>>
        /\ eng.pc = "done" =>
              eng.engine = RunBacktest(FreshEngine(eng.engine), eng.price_data,
                                       eng.allocations)

ClampHolds(sz, e, l, res) ==
    LET lim == RMul(e, l)
    IN  IF RLt(lim, RAbs(sz))
        THEN RAbs(res) = lim /\ RSign(res) = RSign(sz)
        ELSE res = sz

\* C7 (as stated): for every state, a request beyond equity * limit comes
\* back with magnitude equity * limit and the request's sign; a request
\* within the limit comes back unchanged.
C7_ClampAsStated ==
    risk.op = "validate_position_size" =>
        ClampHolds(risk.size, risk.current_equity, risk.position_limit_pct,
                   risk.result)

\* C7 (amended): the same, for every state with current_equity > 0.
C7_PositionClamp ==
    risk.op = "validate_position_size" /\ RLt(RZero, risk.current_equity) =>
        ClampHolds(risk.size, risk.current_equity, risk.position_limit_pct,
                   risk.result)

\* A short request beyond the limit that was clamped.
C7_Witness ==
    /\ risk.op = "validate_position_size"
    /\ RLt(RZero, risk.current_equity)
    /\ RSign(risk.size) = -1
    /\ RLt(RMul(risk.current_equity, risk.position_limit_pct), RAbs(risk.size))
    /\ risk.result = RNeg(RMul(risk.current_equity, risk.position_limit_pct))

\* The asset has a price on the date of the row current_prices.
HasPrice(current_prices, asset) ==
    asset \in DOMAIN current_prices /\ ~IsNaN(current_prices[asset])

\* The allocation frame without the rows of prow's date whose asset has no
\* price on that date.
WithoutUnpriced(allocations, prow) ==
    SelectSeq(allocations,
              LAMBDA r : r.date # prow.date \/ HasPrice(prow.prices, r.asset))

\* C11: every date of a run leaves the engine (cash, positions, trade log,
\* history) as if the allocation rows naming an asset without a price on
\* that date were not there: such a row changes nothing and the other rows
\* of the date are rebalanced.
C11_MissingPriceSkipped ==
    [][(eng.pc = "run" /\ eng'.pc = "run" /\ eng'.i = eng.i + 1) =>
          eng'.engine = StepDate(eng.engine, eng.price_data[eng'.i],
                                 WithoutUnpriced(eng.allocations,
                                                 eng.price_data[eng'.i]))]_vars

\* A step of the run over a date that carries exactly one allocation row,
\* for an asset with a price.
OneRowStep ==
    /\ eng.pc = "run" /\ eng'.pc = "run" /\ eng'.i = eng.i + 1
    /\ Len(DailyAllocs(eng.allocations, eng.price_data[eng'.i].date)) = 1
    /\ HasPrice(eng.price_data[eng'.i].prices,
                DailyAllocs(eng.allocations, eng.price_data[eng'.i].date)[1].asset)

\* What the claim says of a step that trades qty at exec for diff and
\* cost, the Trade being logged exactly when "logged" holds.
DustEffect(e, f, date, asset, cur, diff, exec, qty, cost, logged) ==
    /\ f.cash = RSub(e.cash, RAdd(diff, cost))
    /\ f.positions[asset] = RAdd(cur, qty)
    /\ f.trades = IF logged
                  THEN Append(e.trades,
                              [date |-> date, asset |-> asset,
                               quantity |-> qty, price |-> exec, cost |-> cost,
                               direction |-> IF RLt(RZero, qty) THEN 1 ELSE -1])
                  ELSE e.trades

\* The traded quantity of the step at or above the threshold / not.
DustEffectAtOrAbove(e, f, date, asset, cur, diff, exec, qty) ==
    DustEffect(e, f, date, asset, cur, diff, exec, qty,
               RMul(RAbs(diff), e.commission_rate),
               RLe(DustThreshold, RAbs(qty)))

DustEffectAbove(e, f, date, asset, cur, diff, exec, qty) ==
    DustEffect(e, f, date, asset, cur, diff, exec, qty,
               RMul(RAbs(diff), e.commission_rate),
               RLt(DustThreshold, RAbs(qty)))

\* diff_value, exec_price and qty_to_trade of the one row of a date.
RowDiff(e, prow, row) ==
    RSub(RMul(MarkToMarket(e, prow.prices), row.weight),
         RMul(CurrentQty(e, row.asset), prow.prices[row.asset]))

RowExec(e, prow, row, diff) == ExecPrice(e, prow.prices[row.asset], diff)

StepRow == DailyAllocs(eng.allocations, eng.price_data[eng.i + 1].date)[1]

StepDiff == RowDiff(eng.engine, eng.price_data[eng.i + 1], StepRow)

StepExec == RowExec(eng.engine, eng.price_data[eng.i + 1], StepRow, StepDiff)

\* C12 as stated: cash and position are always updated, and a Trade is
\* logged exactly when the traded quantity is at or above the threshold.
C12_DustAsStated ==
    [][OneRowStep =>
          DustEffectAtOrAbove(eng.engine, eng'.engine, eng.price_data[eng.i + 1].date,
                              StepRow.asset, CurrentQty(eng.engine, StepRow.asset),
                              StepDiff, StepExec, RDiv(StepDiff, StepExec))]_vars

\* C12: cash and position are always updated by the traded amounts, and a
\* Trade is logged exactly when the magnitude of the traded quantity is
\* strictly above the threshold: a quantity of exactly 1e-4 is not logged.
C12_DustTrades ==
    [][OneRowStep =>
          DustEffectAbove(eng.engine, eng'.engine, eng.price_data[eng.i + 1].date,
                          StepRow.asset, CurrentQty(eng.engine, StepRow.asset),
                          StepDiff, StepExec, RDiv(StepDiff, StepExec))]_vars

\* A finished run in which one date changed the GOLD position by a
\* non-zero quantity below the threshold, changed cash, and logged no
\* trade, while another date's trade was logged.
C12_Witness ==
    /\ eng.pc = "done"
    /\ eng.engine.trades # <<>>
    /\ \E k \in 1..(Len(eng.engine.history) - 1) :
          LET a == eng.engine.history[k]
              b == eng.engine.history[k + 1]
          IN  /\ "GOLD" \notin DOMAIN a.positions
              /\ "GOLD" \in DOMAIN b.positions
              /\ b.positions["GOLD"] # RZero
              /\ RLt(RAbs(b.positions["GOLD"]), DustThreshold)
              /\ a.cash # b.cash
              /\ \A t \in 1..Len(eng.engine.trades) :
                    eng.engine.trades[t].date # a.date

\* The run of a fresh engine of the same configuration over the first i
\* dates only, with the allocation rows of later dates removed.
PrefixRun(e, price_data, allocations, i) ==
    RunBacktest(NewEngine(e.initial_capital, e.commission_bps, e.slippage_bps),
                SubSeq(price_data, 1, i),
                SelectSeq(allocations,
                          LAMBDA r : \E k \in 1..i : price_data[k].date = r.date))

\* C13: after the dates up to d, the engine (recorded states, trades, cash,
\* positions) is what a run over the dates up to d alone produces, so two
\* runs that agree up to d agree on everything recorded up to d, whatever
\* the prices and allocations after d.
C13_NoLookAhead ==
    eng.pc \in {"run", "done"} =>
        eng.engine = PrefixRun(eng.engine, eng.price_data, eng.allocations, eng.i)

\* A run stopped after a date on which it traded, with a later date whose
\* prices differ and which carries allocations.
C13_Witness ==
    /\ eng.pc = "run"
    /\ 0 < eng.i /\ eng.i < Len(eng.price_data)
    /\ eng.engine.trades # <<>>
    /\ eng.price_data[eng.i + 1].prices # eng.price_data[eng.i].prices
    /\ DailyAllocs(eng.allocations, eng.price_data[eng.i + 1].date) # <<>>
    /\ DailyAllocs(eng.allocations, eng.price_data[eng.i + 1].date)
          # DailyAllocs(eng.allocations, eng.price_data[eng.i].date)

\* The ranges the specification gives for a RiskProfile.
ValidProfile(profile) ==
    /\ RLt(RZero, profile.max_drawdown) /\ RLe(profile.max_drawdown, ROne)
    /\ RLt(RZero, profile.vol_target)
    /\ RLe(ROne, profile.max_leverage)
    /\ RLt(RZero, profile.position_limit_pct)
    /\ RLe(profile.position_limit_pct, ROne)

\* C16: a RiskProfile that was built, and the profile of every
\* CapitalConstitution, is within the ranges: an invalid one raised.
C16_InvalidProfileRaises ==
    risk.op \in {"RiskProfile", "CapitalConstitution"} => ValidProfile(risk.profile)

\* The rows of a frame whose test window starts latest.
MostRecentRows(frame) ==
    {i \in 1..Len(frame) :
        \A j \in 1..Len(frame) : frame[j].test_start <= frame[i].test_start}

\* C21: get_best_params_across_folds returns the best_params of the fold
\* with the latest test window, whatever the order of the rows, and the
\* empty mapping for an empty frame, and leaves the frame as it was.
C21_MostRecentFoldParams ==
    agg.fn = "get_best_params_across_folds" =>
        /\ agg.after = agg.wfo_results
        /\ agg.wfo_results = <<>> => agg.result = EmptyDict
        /\ \A i \in MostRecentRows(agg.wfo_results) :
              agg.result = agg.wfo_results[i].best_params

\* C22: get_vol_scalar returns 1.0 when current_volatility <= 0; for a
\* positive volatility it returns vol_target / current_volatility when the
\* volatility is above the target and 1.0 otherwise; and for a valid
\* profile (vol_target > 0) the scalar lies in (0, 1].
C22_VolScalar ==
    risk.op = "get_vol_scalar" =>
        /\ RLe(risk.current_volatility, RZero) => risk.result = ROne
        /\ (RLt(RZero, risk.current_volatility)
              /\ RLt(risk.vol_target, risk.current_volatility)) =>
                risk.result = RDiv(risk.vol_target, risk.current_volatility)
        /\ ~RLt(risk.vol_target, risk.current_volatility) => risk.result = ROne
        /\ RLt(RZero, risk.vol_target) =>
                RLt(RZero, risk.result) /\ RLe(risk.result, ROne)

\* A volatility of twice a positive target: the scalar is one half.
C22_Witness ==
    /\ risk.op = "get_vol_scalar"
    /\ RLt(RZero, risk.vol_target)
    /\ risk.current_volatility = RMul(I2R(2), risk.vol_target)
    /\ risk.result = Rat(1, 2)

(***************************************************************************)
(* Properties of the strategy wrapper                                      *)
(***************************************************************************)
\* The step was frozen: check_drawdown was False.
Frozen(st) ==
    ~check_drawdown(st.state.current_equity, st.state.peak_equity,
                    st.profile.max_drawdown)

\* The cap of a position and the raw size after scaling.
Cap(st) == RMul(st.state.current_equity, st.profile.position_limit_pct)

Scaled(st, symbol) ==
    RMul(st.raw_signals[symbol],
         get_vol_scalar(st.state.current_volatility, st.profile.vol_target))

\* A frozen step has a zero target for every asset held and has not asked
\* for the raw signals.
FrozenAllZero(st) ==
    /\ ~st.out.generated
    /\ DOMAIN st.out.result = DOMAIN st.state.positions
    /\ \A sym \in DOMAIN st.out.result : st.out.result[sym] = RZero

\* Scale, then clamp: the approved size of a symbol is the scaled size
\* when that is within the cap, else the cap with the sign of the size.
ScaledThenClamped(st, symbol) ==
    /\ RLe(RAbs(Scaled(st, symbol)), Cap(st)) =>
          st.out.result[symbol] = Scaled(st, symbol)
    /\ RLt(Cap(st), RAbs(Scaled(st, symbol))) =>
          st.out.result[symbol] = RMul(Cap(st), I2R(RSign(Scaled(st, symbol))))

IsCall == cb'.calls = cb.calls + 1

\* The breaker is OPEN and the timeout has passed since the last failure.
TimedOut(b) == b.state = "OPEN" /\ b.now - b.last_failure_time > b.timeout

\* C23: a call on a CLOSED breaker invokes the function and leaves the
\* breaker CLOSED unless the call fails and is the failure_threshold-th
\* failed call in a row, which makes it OPEN; a call on an OPEN breaker
\* before the timeout has passed raises without invoking the function and
\* leaves the breaker OPEN.
C23_OpensOnRepeatedFailure ==
    [][IsCall =>
          /\ cb.state = "CLOSED" =>
                /\ cb'.invoked
                /\ cb'.state = IF cb'.outcome = "raised"
                                    /\ cb'.streak >= cb.failure_threshold
                                THEN "OPEN" ELSE "CLOSED"
          /\ (cb.state = "OPEN" /\ ~TimedOut(cb)) =>
                /\ ~cb'.invoked
                /\ cb'.outcome = "rejected"
                /\ cb'.state = "OPEN"]_vars

\* A breaker with threshold 2 that two failures opened and that rejected
\* the third call.
C23_Witness ==
    /\ cb.state = "OPEN"
    /\ cb.failure_threshold = 2
    /\ cb.calls = 3
    /\ cb.streak = 2
    /\ cb.outcome = "rejected"
    /\ ~cb.invoked

\* C24: a call on an OPEN breaker after the timeout has passed is let
\* through; a call that succeeds in HALF_OPEN hands the function's result
\* to the caller and, when it is the success_threshold-th success since
\* HALF_OPEN was entered, leaves the breaker CLOSED with failure_count 0,
\* and HALF_OPEN before that.
C24_RecoversAfterTimeout ==
    [][IsCall =>
          /\ TimedOut(cb) => cb'.invoked
          /\ ((TimedOut(cb) \/ cb.state = "HALF_OPEN")
                 /\ cb'.outcome = "returned") =>
                /\ cb'.returned = cb'.func
                /\ cb'.trial >= cb.success_threshold =>
                      cb'.state = "CLOSED" /\ cb'.failure_count = 0
                /\ cb'.trial < cb.success_threshold =>
                      cb'.state = "HALF_OPEN"]_vars

\* A breaker with success_threshold 2 that one failure opened and that the
\* second success after the timeout closed again.
C24_Witness ==
    /\ cb.state = "CLOSED"
    /\ cb.failure_threshold = 1
    /\ cb.success_threshold = 2
    /\ cb.calls = 3
    /\ cb.trial = 2
    /\ cb.outcome = "returned"
    /\ cb.returned = "b"
    /\ cb.failure_count = 0

(***************************************************************************)
(* Properties of the model registry                                        *)
(***************************************************************************)
\* C25: after a promote_to_champion(model_id) that returned, the model is
\* the only entry of its family with status 'champion', and every other
\* entry of the family that was champion before the call is 'retired'.
C25_OneChampionPerFamily ==
    (reg.pc = "ready" /\ reg.last.op = "promote" /\ reg.last.raised = "none") =>
        \A k \in 1..Len(reg.models) :
            FamilyOf(reg.models[k].model_id) = FamilyOf(reg.last.model_id) =>
                IF reg.models[k].model_id = reg.last.model_id
                THEN reg.models[k].status = "champion"
                ELSE /\ reg.models[k].status # "champion"
                     /\ reg.last.before[k].status = "champion" =>
                           reg.models[k].status = "retired"

(***************************************************************************)
(* Properties of the objective functions                                   *)
(***************************************************************************)
\* C14: the Sharpe, Sortino and Calmar ratios of every return series are
\* finite numbers: never NaN, never infinite.
C14_RatiosFinite ==
    obj.fn \in {"sharpe", "sortino", "calmar"} => obj.result.kind = "num"

\* C15: the Sharpe ratio of an all-zero series is 0; the profit factor is
\* +inf with positive profit and no loss, and 0 with no profit.
C15_ObjectiveDegeneracy ==
    /\ (obj.fn = "sharpe" /\ \A k \in 1..Len(obj.returns) : obj.returns[k] = RZero)
          => obj.result = ZeroScore
    /\ obj.fn = "profit_factor" =>
          /\ (RLt(RZero, GrossProfit(obj.returns)) /\ Downside(obj.returns) = <<>>)
                => obj.result = PosInf
          /\ GrossProfit(obj.returns) = RZero => obj.result = ZeroScore

(***************************************************************************)
(* Properties of the optimizer and of the walk-forward run                 *)
(***************************************************************************)
\* C1: for every fold run_wfo processed, a second run with the same sampler
\* choices whose inputs differ only in a price or in the signals at one
\* timestamp strictly inside the fold's test window selects the same
\* best_params as the first run.
C1_NoLeakage ==
    wfo.pc # "idle" =>
        \A k \in 1..Len(wfo.results) :
            \A p \in wfo.perturbed[k] : p = wfo.results[k].best_params

\* A processed fold that had perturbed second runs and whose two trials
\* scored differently, so that the selection was a real choice.
C1_Witness ==
    /\ wfo.pc # "idle"
    /\ \E k \in 1..Len(wfo.results) :
          /\ wfo.perturbed[k] # {}
          /\ wfo.results[k].trial_values[1].kind = "num"
          /\ wfo.results[k].trial_values[2].kind = "num"
          /\ wfo.results[k].trial_values[1] # wfo.results[k].trial_values[2]

\* C8: a fault in any step of a trial never leaves optimize; the faulted
\* trial is recorded with the worst value and all n_trials trials run
\* before optimize returns.
C8_TrialFailureRecovered ==
    opt.pc # "idle" =>
        /\ opt.pc = "raised" => opt.raised_in \notin FaultPoints
        /\ \A k \in 1..Len(opt.trials) :
              opt.trials[k].fault # NoFault => opt.trials[k].value = NegInf
        /\ opt.pc = "returned" => Len(opt.trials) = opt.n_trials

\* Trial i completed, no completed trial scored strictly higher, and no
\* earlier completed trial scored the same.
FirstMaximum(trials, i) ==
    /\ trials[i].state = "COMPLETE"
    /\ \A k \in 1..Len(trials) :
          trials[k].state = "COMPLETE" =>
              /\ ~ScoreLt(trials[i].value, trials[k].value)
              /\ k < i => trials[k].value # trials[i].value

\* C19: when optimize returns, all n_trials trials have run and the
\* parameter set returned is that of the trial with the maximum objective
\* value, the first one to run among those that share the maximum.
C19_BestParamsFirstMaximum ==
    opt.pc = "returned" =>
        /\ Len(opt.trials) = opt.n_trials
        /\ \E i \in 1..Len(opt.trials) :
              /\ FirstMaximum(opt.trials, i)
              /\ opt.best_params = opt.trials[i].params

\* optimize returned after two trials with different parameter sets and
\* the same non-zero objective value, and returned the first one's.
C19_Witness ==
    /\ opt.pc = "returned"
    /\ Len(opt.trials) = 2
    /\ opt.trials[1].state = "COMPLETE"
    /\ opt.trials[2].state = "COMPLETE"
    /\ opt.trials[1].value = opt.trials[2].value
    /\ opt.trials[1].value.kind = "num"
    /\ opt.trials[1].value.sgn # 0
    /\ opt.trials[1].params # opt.trials[2].params
    /\ opt.best_params = opt.trials[1].params

\* C20: a second optimize call with identical data, signals, param_space
\* and n_trials samples the same parameter sets in the same order as the
\* first call did, and returns the same best_params.
C20_Reproducible ==
    "previous" \in DOMAIN opt =>
        /\ \A k \in 1..Len(opt.trials) :
              opt.trials[k].params = opt.previous.sampled[k]
        /\ opt.pc = "returned" => opt.best_params = opt.previous.best_params

\* A test slice too short to give two returns, or without any signal.
InsufficientTest(fold, signals) ==
    \/ Cardinality(fold.test) <= 2
    \/ SignalsIn(signals, fold.test) = <<>>

\* C9: run_wfo never aborts on a fold; when it returns, the result holds
\* one record per fold of the splitter in fold order; and a fold whose
\* test slice is insufficient has oos_sharpe = 0 and oos_return = 0.
C9_FoldFailureRecovered ==
    wfo.pc # "idle" =>
        /\ wfo.pc # "raised"
        /\ wfo.pc = "returned" => Len(wfo.results) = Len(wfo.splits)
        /\ \A k \in 1..Len(wfo.results) :
              /\ wfo.results[k].fold = k - 1
              /\ InsufficientTest(wfo.splits[k], wfo.signals) =>
                    /\ wfo.results[k].oos_sharpe = ZeroScore
                    /\ wfo.results[k].oos_return = RZero

\* C10: in every processed fold every in-sample trial engine has zero
\* commission and zero slippage, and the out-of-sample engine has non-zero
\* commission and non-zero slippage.
C10_FrictionsOnlyOutOfSample ==
    wfo.pc # "idle" =>
        \A k \in 1..Len(wfo.results) :
            /\ \A j \in 1..Len(wfo.results[k].trial_engines) :
                  /\ wfo.results[k].trial_engines[j].commission_bps = 0
                  /\ wfo.results[k].trial_engines[j].slippage_bps = 0
            /\ wfo.results[k].oos_engine.commission_bps > 0
            /\ wfo.results[k].oos_engine.slippage_bps > 0

================================================================================
